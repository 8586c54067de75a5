------------------------------ MODULE MCVmMap ------------------------------
(* Model values and inputs for checking VmMap with TLC. *)
EXTENDS VmMap, TLC

CONSTANTS exe

MCFiles == {exe}

MCAnonOnly == {NoFile}

MCAllSources == {exe, NoFile}
====
