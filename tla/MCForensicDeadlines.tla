------------------------- MODULE MCForensicDeadlines ---------------------------
(* Small instances of ForensicDeadlines for TLC.  Dates 3..8 run from a      *)
(* Thursday to the next Tuesday; the seed's recess repeats a fixed holiday.  *)
EXTENDS ForensicDeadlines, TLC

AdminSymmetry == Permutations(Admins)

MCStartDates == {3, 5}

MCSeedEntries ==
    LET national(d) == [date |-> d, scope |-> "NATIONAL",
                        court |-> Null, comarca |-> Null]
    IN  <<national(7), national(7)>>

===============================================================================
