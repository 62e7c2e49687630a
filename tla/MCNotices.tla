---- MODULE MCNotices ----
EXTENDS Notices
CONSTANTS ann, annlee
AlikeMC(u) == IF u = annlee THEN {ann} ELSE {}
====
