--------------------------- MODULE MCStreamSchedule ---------------------------
(* A producer, a filter, a reader, a monitor, an output module and two modules on no     *)
(* path, one of which calls for the other; forty ways to put them on two trigger          *)
(* paths and an end path.                                                               *)
EXTENDS StreamSchedule

MCModules  == {"producer", "filter", "reader", "monitor", "output", "unscheduled", "nested"}
MCProducts == {"a", "u", "v"}
MCproducer == [b \in MCProducts |->
  CASE b = "a" -> "producer" [] b = "u" -> "unscheduled" [] b = "v" -> "nested"]

Place(m) == [m |-> m, filterAction |-> "Normal"]
Veto(m)  == [m |-> m, filterAction |-> "Veto"]
Ignore(m) == [m |-> m, filterAction |-> "Ignore"]

Config(trig, end) ==
  [trig_paths |-> trig, end_paths |-> <<end>>,
   consumes |-> [m \in MCModules |-> CASE m = "reader" -> <<"a", "u">> [] m = "monitor" -> <<"v", "u">>
                                        [] m = "unscheduled" -> <<"v">> [] OTHER -> <<>>],
   mightGet |-> [m \in MCModules |-> CASE m = "reader" -> {"a", "u"} [] m = "monitor" -> {"a"}
                                        [] OTHER -> {}],
   kept |-> [m \in MCModules |-> {}],
   filters |-> {"filter"}, filters_on_endpaths |-> {}, outputs |-> {"output"},
   selectEvents |-> [m \in {"output"} |-> {1}], canDeleteEarly |-> {"a", "u", "v"}]

FirstPaths == {<<Place("producer"), Place("filter"), Place("reader")>>,
               <<Ignore("filter"), Place("reader"), Place("reader")>>,
               <<Place("filter"), Place("reader"), Place("monitor")>>,
               <<>>}
SecondPaths == {<<Place("producer"), Veto("filter"), Place("monitor"), Place("reader")>>,
                <<Place("producer"), Place("reader"), Place("filter")>>,
                <<Place("producer")>>}
EndPaths == {<<Place("monitor"), Place("output")>>,
             <<Place("producer"), Place("filter"), Place("output")>>,
             <<>>}
MCConfigurations ==
  {Config(<<p, q>>, e) : p \in FirstPaths, q \in SecondPaths, e \in EndPaths}
  \cup {[Config(<<p, <<>>>>, <<Place("filter"), Place("monitor"), Place("output")>>)
            EXCEPT !.filters_on_endpaths = {"filter"}] : p \in FirstPaths}
=============================================================================
