------------------------------ MODULE MCGetcwd ------------------------------
(* FsDir with two processes, one of which calls getcwd, one terminal and two *)
(* more inodes.                                                             *)
EXTENDS Getcwd
MCPaths == {<<"a">>, <<"a", "b">>, <<"..">>, <<"/", "dev_tty0">>}
MCNames == {<<"a">>}
MCFlags == {{"RDWR"}, {"CREAT", "RDWR", "TRUNC"}}
=============================================================================
