---------------------------- MODULE MCDemandPath ----------------------------
(* Instances of DemandPath for TLC.                                        *)
EXTENDS DemandPath, TLC

CONSTANTS t1, t2, p1, p2

Scene(first, second, write, free, pin, stop) ==
    [jobs |-> t1 :> first @@ t2 :> second, write |-> write, free |-> free,
     pin |-> pin, stop |-> stop]

Load(p) == <<"load", p, "vram">>
Op(fn, p) == <<fn, p, "host">>

\* Two loads, with room for one page; a load while its victim is evicted or
\* freed; a read whose page is pushed back, and shutdown; an undisturbed thread.
Contention ==
    {Scene({Load(p1)}, {Load(p2), Op("demote_to_host", p2)}, {}, {}, {}, FALSE),
     Scene({Load(p1)}, {Op("evict", p2)}, {}, {p2}, {}, FALSE),
     Scene({Op("read", p1), Op("verify", p1)}, {Op("demote_to_nvme", p1)}, {}, {}, {}, TRUE),
     Scene({Load(p1), Load(p2), Op("demote_to_nvme", p1), Op("evict", p1)}, {}, {p1}, {}, {p1}, FALSE)}

TwoLoads ==
    {Scene({Load(p1)}, {Load(p2), Op("demote_to_host", p2)}, {}, {}, {}, FALSE)}
=============================================================================
