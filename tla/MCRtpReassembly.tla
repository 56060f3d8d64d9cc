---- MODULE MCRtpReassembly ----
(* A group of two pictures for TLC: an IDR picture of parameter sets, a slice *)
(* and a slice in three fragments, and a picture whose first two slices share *)
(* an aggregation packet.                                                      *)
EXTENDS RtpReassembly

Nal(kind, unit, part) == [kind |-> kind, unit |-> unit, part |-> part]
Single(n) == [fu |-> "none", nals |-> <<n>>]
Fragment(fu, n) == [fu |-> fu, nals |-> <<n>>]

TwoPictures ==
    << << Single(Nal("param", 0, 1)), Single(Nal("idr", 1, 1)),
          Fragment("start", Nal("idr", 2, 1)), Fragment("middle", Nal("idr", 2, 2)),
          Fragment("end", Nal("idr", 2, 3)) >>,
       << [fu |-> "none", nals |-> <<Nal("slice", 1, 1), Nal("slice", 2, 1)>>],
          Single(Nal("slice", 3, 1)), Single(Nal("slice", 4, 1)) >> >>

\* Far enough back for a resync, less far back, and ahead.  A sender that begins
\* anew does not use the timestamp of the picture it broke off in.
Jumps == {-6, -2, 3}
TimeJumps == {-3, 2}

====
