------------------------------- MODULE MCRamFs -------------------------------
(* A small instance of RamFs: a file and a directory of the initramfs, a    *)
(* name in the root, a directory with a name in it.                         *)
EXTENDS RamFs

MCPaths == {<<"a">>, <<"b">>, <<"d">>, <<"d", "a">>}
MCInitramfs == <<"b">> :> "reg"
MCTargets == {[abs |-> FALSE, path |-> <<"a">>]}
MCFlagSets == {{}, {"CREAT"}, {"CREAT", "EXCL"}, {"TRUNC"}}
=============================================================================
