----------------------------- MODULE MCSimStart -----------------------------
(***************************************************************************)
(* Jobs with up to three region tools and every sensitive detector, in a   *)
(* world of three volumes.                                                 *)
(***************************************************************************)
EXTENDS SimStart

\* Three volumes in the world; the name of the second is part of the third's.
MCMatching == ("TPC" :> {1}) @@ ("Calo" :> {2, 3}) @@ ("Calo2" :> {3}) @@ ("None" :> {})
                @@ (World :> {})

Limits(names) == [kind |-> "limits", names |-> names, valid |-> TRUE]

MCTools ==
  ("limits"   :> Limits(<<"TPC", "Calo2">>)) @@ ("more" :> Limits(<<"Calo", "None">>))
    @@ ("all" :> Limits(<<World>>)) @@ ("missing" :> Limits(<<"TPC", "None">>))
    @@ ("gflash" :> [kind |-> "calorimeter", names |-> <<"Calo">>, valid |-> TRUE])
    @@ ("smear"  :> [kind |-> "tracker", names |-> <<"TPC">>, valid |-> TRUE])
    @@ ("bad"    :> [kind |-> "tracker", names |-> <<"TPC">>, valid |-> FALSE])

MCSensTypes == ("gas" :> "tracker") @@ ("czt" :> "calorimeter")
MCGeneric   == ("tracker" :> "Geant4Tracker")

\* Both plugins of a job; the default ones for the calorimeter and the tracker.
Types(t, c) == ("tracker" :> t) @@ ("calorimeter" :> c)
Default     == Types("MegatSimpleTrackerSD", "MegatAggregateCalorimeterSD")

Config(regions, types) ==
  [regions |-> regions, tools |-> MCTools, types |-> types,
   seeds |-> 2, fromGaudi |-> TRUE, interactive |-> FALSE]

MCConfigs ==
  {Config(r, Default) :
     r \in {<<a, b>> : a, b \in DOMAIN MCTools} \cup {<<"smear", "limits", "all">>}}
    \cup {Config(<< >>, Types(t, c)) : t \in {"MegatSimpleTrackerSD", "MegatSimpleDriftChamber"},
                                       c \in Detectors}
    \cup {Config(<< >>, "calorimeter" :> "MegatAggregateCalorimeterSD")}
    \cup {[Config(<<"all">>, Default) EXCEPT !.seeds = 1, !.fromGaudi = b] : b \in BOOLEAN}
    \cup {[Config(<<"all">>, Default) EXCEPT !.interactive = TRUE]}

\* Regions do not matter to the events: those of jobs without are tracked.
MCTracked == {c \in MCConfigs : c.regions = << >>}
=============================================================================
