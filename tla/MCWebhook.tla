----------------------------- MODULE MCWebhook -----------------------------
(***************************************************************************)
(* A small instance of Webhook for TLC.                                    *)
(***************************************************************************)
EXTENDS Webhook, TLC

\* Up to two events, with one that is no object behind one that is.
MCContents ==
  [signature: {"right", "wrong", "absent", "not ascii"}, fits: BOOLEAN,
   json: {"events", "other", "broken", "too deep"},
   events: {<<>>, <<TRUE>>, <<TRUE, TRUE>>, <<TRUE, FALSE>>}]

Symmetry == Permutations(Workers)
=============================================================================
