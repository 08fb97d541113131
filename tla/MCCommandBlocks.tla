-------------------------- MODULE MCCommandBlocks --------------------------
(* CommandBlocks with short lines, a small queue and a short list of blocks. *)
(* Once the last key has been pressed the shell does not prompt again, as a  *)
(* shell need not: three keys are for what becomes of one line, two for that *)
(* of two.                                                                   *)
EXTENDS CommandBlocks
LettersOnly == {Letter, Return}
Editing == {Wide, Backspace, Control, Return}

FirstLine == shell.prompt = Earlier + 1 \/ shell.at \in {"D", "A"}
MCNext == Next /\ (pressed' = MaxKeys => FirstLine')
MCSpec == Init /\ [][MCNext]_vars /\ WF_vars(Drain) /\ WF_vars(Handle)
=============================================================================
