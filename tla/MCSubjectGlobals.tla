-------------------------- MODULE MCSubjectGlobals --------------------------
EXTENDS SubjectGlobals
MCSubjects == {<<>>, <<"a">>, <<"b">>, <<"a", "b">>}
Anywhere   == {"scan", "commit", "eval"}
=============================================================================
