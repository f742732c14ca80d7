----------------------------- MODULE MCHostData ------------------------------
(***************************************************************************)
(* What a host is told: the values of a file (Records), the entries of a       *)
(* directory (Listing), the date (Calendar); and that it is told of the card   *)
(* that is in (Hotplug).  The four share no state, so one run explores them     *)
(* one at a time: subject says which.                                        *)
(***************************************************************************)
EXTENDS Records, Listing, Calendar, Hotplug

VARIABLE subject

MCInit ==
  /\ subject \in {"records", "listing", "calendar", "card"}
  /\ RecordsInit /\ ListingInit /\ CalendarInit /\ Init
  /\ subject # "records" => kind = "raw"
  /\ subject # "listing" => dir = <<>>
  /\ subject # "calendar" => chip = "soft"
  /\ subject # "card" => present

MCNext ==
  /\ UNCHANGED subject
  /\ \/ /\ subject = "records" /\ RecordsNext
        /\ UNCHANGED listingVars /\ UNCHANGED calendarVars /\ UNCHANGED vars
     \/ /\ subject = "listing" /\ ListingNext
        /\ UNCHANGED recordVars /\ UNCHANGED calendarVars /\ UNCHANGED vars
     \/ /\ subject = "calendar" /\ CalendarNext
        /\ UNCHANGED recordVars /\ UNCHANGED listingVars /\ UNCHANGED vars
     \/ /\ subject = "card" /\ Next
        /\ UNCHANGED recordVars /\ UNCHANGED listingVars /\ UNCHANGED calendarVars

MCSpec == MCInit /\ [][MCNext]_<<subject, recordVars, listingVars, calendarVars, vars>>
=============================================================================
