----------------------------- MODULE MCFileTable -----------------------------
(***************************************************************************)
(* FileTable for TLC: a table of four descriptors (OPEN_FILES_COUNT scaled *)
(* down from 16, enough for stdin, stdout and one pipe or two files), a    *)
(* regular file, a directory and a missing name, and the flags the shell   *)
(* and a writer pass.                                                      *)
(***************************************************************************)
EXTENDS FileTable, TLC

MCPathKind == [p \in {"f", "d", "x"} |->
                  CASE p = "f" -> "file" [] p = "d" -> "dir" [] p = "x" -> "none"]

MCFlags == {{"rdonly"}, {"wronly", "creat"}, {"rdwr"}}
====
