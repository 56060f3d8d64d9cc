---- MODULE MCPlaneSelection ----
(* Boards with three planes besides the primary one, each of a kind found on *)
(* the supported boards, and a primary plane with or without linear NV12.    *)
EXTENDS PlaneSelection

Kind == [graphics |-> {"argb", "xrgb"},             \* cursor, Allwinner UI planes
         universal |-> {"argb", "xrgb", "nv12"},    \* Rockchip Esmart, vc4
         cluster |-> {"argbc", "nv12c"},            \* Rockchip Cluster: AFBC only
         videoOnly |-> {"nv12"},                    \* Allwinner, i.MX video planes
         area |-> {"argb", "nv12"},                 \* VOP2 secondary area
         other |-> {}]                              \* a plane of another CRTC

BoardOf(kinds, primaryCaps, rk) ==
    [caps |-> [p \in Planes \cup {Primary} |->
                  IF p = Primary THEN primaryCaps ELSE Kind[kinds[p]]],
     alpha |-> Planes,
     auto |-> {p \in Planes : kinds[p] # "area"},
     rk3588 |-> rk]

BoardsWith(kindss) ==
    {BoardOf(kinds, primaryCaps, rk) :
        kinds \in kindss,
        primaryCaps \in {{"xrgb", "argb"}, {"xrgb", "argb", "nv12"}},
        rk \in BOOLEAN}

Usable == DOMAIN Kind \ {"other"}
NoPreference == [video |-> NoPlane, flow |-> NoPlane, ui |-> NoPlane]

\* Three planes without preferences, and two planes, the third being of no
\* use, with every combination of plane ids on the command line.
EverySetup ==
    [board : BoardsWith([Planes -> Usable]), pref : {NoPreference}]
    \cup [board : BoardsWith({k \in [Planes -> DOMAIN Kind] :
                                 k[1] # "other" /\ k[2] # "other" /\ k[3] = "other"}),
          pref : [video : {1, 2, Primary, NoPlane}, flow : {1, 2, NoPlane}, ui : {1, 2, NoPlane}]]

====
