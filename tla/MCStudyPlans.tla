---------------------------- MODULE MCStudyPlans ----------------------------
EXTENDS StudyPlans
=============================================================================
