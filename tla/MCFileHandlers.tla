-------------------------- MODULE MCFileHandlers --------------------------
(* Instances of FileHandlers for TLC. *)
EXTENDS FileHandlers

CONSTANTS r1, r2, r3

\* A directory with a file in it, and a file.
SomePaths == {<<1>>, <<2>>, <<1, 1>>, <<1, 2>>}

\* One request that reads or writes, one that changes things, and one more writer.
Interfering ==
    [r \in Reqs |->
        CASE r = r1 -> {"file.read", "file.stat", "file.list", "file.write"}
          [] r = r2 -> {"file.write", "file.move", "file.delete", "directory.create"}
          [] OTHER -> {"file.write"}]
=============================================================================
