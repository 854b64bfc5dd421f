----------------------------- MODULE MCWebhook ------------------------------
(***************************************************************************)
(* TLC instance of Webhook: one job of any of the kinds below, and the     *)
(* webhooks that take each way through the handlers.                       *)
(***************************************************************************)
EXTENDS Webhook, TLC

CONSTANTS j1, p1

Kind(e, ls) == [entity |-> e, labels |-> ls]
AllKinds ==
  {Kind(e, <<U24>>) : e \in {"ggml-org", "someone", "riseproject-staging", "banned"}}
    \union {Kind("RuyiAI-Stack", <<"rva23", U24>>), Kind("RuyiAI-Stack", <<U24, "rvv">>),
            Kind("someone", <<"rva23", U24>>), Kind("someone", <<U24, "rvv">>),
            Kind("someone", <<U24, U24>>), Kind("riseproject-staging", <<U26>>)}

Hook == [event |-> "workflow_job", action |-> "queued", job |-> j1, lacks |-> "nothing",
         public |-> TRUE, sender |-> "user", runner |-> Blank]
JobHooks == {Hook, [Hook EXCEPT !.action = "in_progress", !.runner = p1],
             [Hook EXCEPT !.action = "completed", !.runner = p1]}
OtherHooks ==
  {[Hook EXCEPT !.action = "waiting"], [Hook EXCEPT !.public = FALSE],
   [Hook EXCEPT !.sender = "abuser"], [Hook EXCEPT !.lacks = "identity"],
   [Hook EXCEPT !.lacks = "job"], [Hook EXCEPT !.lacks = "url"],
   [Hook EXCEPT !.event = "installation"], [Hook EXCEPT !.event = "star"]}
AllHooks == JobHooks \union OtherHooks

Symmetry == Permutations(Delivery)

==============================================================================
