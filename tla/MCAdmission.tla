----------------------------- MODULE MCAdmission -----------------------------
EXTENDS Admission

\* At the same time the signature of an admission by work ranks before that of one by
\* ghost key.
MCCores == [ts : 1 .. MaxTime, sig : {1}, tier : {"pow"}]
           \cup [ts : 0 .. MaxTime, sig : {2}, tier : {"ghostkey"}]

\* A name at the admission, and one of each later version.
MCNicknames == [version : 1 .. 3, sig : {1}]
=============================================================================
