---------------------------- MODULE IndexDirectory ----------------------------
(***************************************************************************)
(* What the indexer promises of a directory: a run that begins on whole    *)
(* files, on none or overwriting, and is not stopped, leaves exactly the   *)
(* chunks it was run on.  A run stopped before it writes changes nothing;  *)
(* one stopped later tears the files, and only an overwriting run mends    *)
(* them.  No vectors, no ids, no tables.  FaissStore implements it.        *)
(***************************************************************************)
CONSTANT Snapshots  \* the chunks a run may be given

VARIABLES
  state,  \* the files are "none", "torn" or "whole"
  held,   \* the chunks in whole files, else <<>>
  run,    \* "none", "begun", "aimed" at its chunks, or "spoilt" by torn files
  goal    \* the chunks an aimed run was given, else <<>>

dvars == <<state, held, run, goal>>

Init == state = "none" /\ held = <<>> /\ run = "none" /\ goal = <<>>

Begin(overwrite) ==
  /\ run = "none"
  /\ run' = IF state = "torn" /\ ~overwrite THEN "spoilt" ELSE "begun"
  /\ UNCHANGED <<state, held, goal>>

Aim(chunks) ==
  /\ run = "begun"
  /\ run' = "aimed" /\ goal' = chunks
  /\ UNCHANGED <<state, held>>

Tear ==
  /\ run \in {"aimed", "spoilt"}
  /\ state' = "torn" /\ held' = <<>>
  /\ UNCHANGED <<run, goal>>

Finish ==
  /\ run = "aimed" /\ state = "torn"
  /\ state' = "whole" /\ held' = goal
  /\ run' = "none" /\ goal' = <<>>

Stop ==
  /\ run' = "none" /\ goal' = <<>>
  /\ UNCHANGED <<state, held>>

Next ==
  \/ \E overwrite \in BOOLEAN : Begin(overwrite)
  \/ \E chunks \in Snapshots : Aim(chunks)
  \/ Tear \/ Finish \/ Stop

Spec == Init /\ [][Next]_dvars
=============================================================================
