---- MODULE MCPrograms ----
EXTENDS Programs
MCArgs == <<"a", "b">>
====
