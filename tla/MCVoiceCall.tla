---------------------------- MODULE MCVoiceCall ----------------------------
(***************************************************************************)
(* A call beside a radio and an access to the DSP.  What is beside it is   *)
(* explored with fewer of the call's own troubles: with one post in the    *)
(* mailbox, an access while the call rests, refused writes while the DSP   *)
(* is up.  After two threads were in set_usecase at once, which they were  *)
(* for good, the run goes as far as every step of a call shows.            *)
(***************************************************************************)
EXTENDS VoiceCall

Beside == usecase \ {Call} # {} \/ \E t \in Users \ Threads : op[t] # "none"
Explored ==
    /\ Beside => posts < 2 /\ (inside # {} => Quiet) /\ (refused # {} => ~asserted)
    /\ tangled =>
        /\ callMode = "inCall" /\ refused = {} /\ ~fmPlays
        /\ inside = {} \/ ~Beside
=============================================================================
