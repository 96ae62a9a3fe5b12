------------------------------ MODULE MCOffers ------------------------------
(***************************************************************************)
(* Small instances of what a customer is offered and shown: the slots, the *)
(* limit on cancellations, the schedules of technicians and the views of   *)
(* the web client.  They share no state in these models, so one part runs  *)
(* and the others rest: each is explored in full, and not their product.   *)
(* The hours and the excluded dates of a schedule are two parts as well.   *)
(***************************************************************************)
EXTENDS LiveViews, Slots, BookingLimit, Schedules

(* Minutes have two ticks: one window opens, the other closes within one.  *)
MCWindows == {<<1, 6>>, <<4, 9>>}

MCBusy ==
  {[start |-> 2, end |-> 4], [start |-> 1, end |-> 5], [start |-> 4, end |-> 6],
   [start |-> 3, end |-> 17], [start |-> 12, end |-> 13], [start |-> 13, end |-> 15],
   [start |-> 11, end |-> 14], [start |-> 15, end |-> 16]}

(* The clocks jump ahead on day 1, or back, or never.                      *)
MCClocks ==
  {[day |-> 1, at |-> 2, shift |-> 2], [day |-> 1, at |-> 4, shift |-> -2],
   [day |-> 5, at |-> 2, shift |-> 0]}

VARIABLE part

offersVars == <<part, liveVars, slotVars, limitVars, scheduleVars>>

(* A part that rests is in one of its initial states.                      *)
OffersInit ==
  /\ part \in {"views", "slots", "limit", "hours", "dates"}
  /\ LiveInit /\ SlotsInit /\ LimitInit /\ SchedulesInit
  /\ part # "views" => \A p \in Pages : page[p].viewer = "CUSTOMER"
  /\ part # "slots" =>
       /\ job.hours = [d \in Days |-> NoWindow] /\ job.off = {} /\ job.busy = << >>
       /\ job.clock.shift = 0 /\ job.duration = Minute

OffersNext ==
  \/ /\ part = "views" /\ LiveNext
     /\ UNCHANGED <<part, slotVars, limitVars, scheduleVars>>
  \/ /\ part = "slots" /\ SlotsNext
     /\ UNCHANGED <<part, liveVars, limitVars, scheduleVars>>
  \/ /\ part = "limit" /\ LimitNext
     /\ UNCHANGED <<part, liveVars, slotVars, scheduleVars>>
  \/ /\ \/ part = "hours" /\ HoursNext
        \/ part = "dates" /\ DatesNext
     /\ UNCHANGED <<part, liveVars, slotVars, limitVars>>

OffersSpec == OffersInit /\ [][OffersNext]_offersVars

(* The type invariants of the parts.                                       *)
OffersTypeOK == LiveTypeOK /\ SlotsTypeOK /\ LimitTypeOK /\ SchedulesTypeOK

OffersSymmetry == Permutations(Changes) \cup Permutations(Puts)
=============================================================================
