------------------------------ MODULE MailoutsMC ------------------------------
(***************************************************************************)
(* Broadcasts and Deliveries on small instances.  They share no row but    *)
(* the message a dispatch creates and hands over, so that every behaviour  *)
(* follows one of them while the other rests in its initial state.         *)
(***************************************************************************)
EXTENDS Broadcasts, Deliveries

VARIABLE part  \* the component this behaviour follows
vars == <<part, bvars, dvars>>

Init == part \in {"broadcasts", "deliveries"} /\ BroadcastsInit /\ DeliveriesInit

InBroadcasts(A) == part = "broadcasts" /\ A /\ UNCHANGED <<part, dvars>>
InDeliveries(A) == part = "deliveries" /\ A /\ UNCHANGED <<part, bvars>>

Next == InBroadcasts(BroadcastsNext) \/ InDeliveries(DeliveriesNext)

\* The timer fires every minute, ticks and processings go on, a worker with a free
\* slot takes what waits, and the queue looks for stalled jobs.
Fairness ==
  /\ \A t \in Ticks : WF_vars(InBroadcasts(TickStep(t)))
  /\ WF_vars(InBroadcasts(\E t \in Ticks : StartTick(t)))
  /\ \A c \in Carriers : WF_vars(InDeliveries(CarrierStep(c)))
  /\ \A m \in Messages :
       /\ WF_vars(InDeliveries(\E c \in Carriers : TakeJob(c, m)))
       /\ WF_vars(InDeliveries(StalledJob(m)))

Spec == Init /\ [][Next]_vars /\ Fairness

\* Both components' rows and threads keep their shape.
MailoutsTypeOK == BroadcastsTypeOK /\ DeliveriesTypeOK

\* A broadcast that is due ends, and so does a message, unless what their modules name
\* keeps it from ending.
EveryMailoutEnds == DueBroadcastEnds /\ EveryMessageEnds
=============================================================================
