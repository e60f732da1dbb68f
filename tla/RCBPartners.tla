------------------------------ MODULE RCBPartners ------------------------------
(***************************************************************************)
(* Who exchanges dots with whom when a partition w of processes, w.lo to   *)
(* w.hi, is halved (RCB::compute): its middle, the partner a process sends *)
(* to, and those it receives from.  With an odd number the lower half has  *)
(* a process more, which sends to the last process of the upper half and   *)
(* receives nothing.                                                       *)
(***************************************************************************)
EXTENDS Integers, Sequences

Half(w) == (w.hi - w.lo) \div 2 + 1
Mid(w) == w.lo + Half(w)
Opposite(w, p) == IF p < Mid(w) THEN p + Half(w) ELSE p - Half(w)
PartnerIn(w, p) == IF Opposite(w, p) > w.hi THEN Opposite(w, p) - 1 ELSE Opposite(w, p)
SourcesIn(w, p) ==
  IF Opposite(w, p) > w.hi THEN <<>>
  ELSE IF p = w.hi /\ PartnerIn(w, p) # Mid(w) - 1
       THEN <<PartnerIn(w, p), PartnerIn(w, p) + 1>>
  ELSE <<PartnerIn(w, p)>>
=============================================================================
