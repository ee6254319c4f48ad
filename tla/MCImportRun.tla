---------------------------- MODULE MCImportRun ----------------------------
(***************************************************************************)
(* TLC instances of ImportRun: what DIGIweb may answer in each of them.    *)
(***************************************************************************)
EXTENDS ImportRun

\* Every accepted POST is answered readably; an answer without a request id
\* does not report success.
Readable == {"tracked", "untracked"}

ReadableOrNot == {"tracked", "untracked", "unreadable"}

WithBareSuccess == {"tracked", "untracked", "bare"}

\* DIGIweb's texts hold no marker the sanitizer misses.
CleanTexts == {"clean"}
=============================================================================
