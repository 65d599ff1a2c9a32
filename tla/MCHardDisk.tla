----------------------------- MODULE MCHardDisk -----------------------------
(* HardDisk for TLC: three disks, with two, one and no logical partitions. *)
EXTENDS HardDisk, TLC

Entry(id, s, n) == [sys_id |-> id, start_sect |-> s, nr_sects |-> n]
Used(s, n) == Entry("kos", s, n)
Ext(s, n) == Entry(EXT_PART, s, n)

MCDisks ==
    { 0 :> <<Ext(2, 9), Used(12, 3)>>
        @@ 2 :> <<Used(1, 2), Ext(4, 3)>> @@ 6 :> <<Used(1, 2), NoEntry>>,
      0 :> <<NoEntry, Ext(5, 6)>> @@ 5 :> <<Used(2, 3), NoEntry>>,
      0 :> <<Used(3, 4), NoEntry>> }
=============================================================================
