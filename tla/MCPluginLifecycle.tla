------------------------- MODULE MCPluginLifecycle -------------------------
(* One plugged-in panel with all that threads can do; or two, "Rp", the    *)
(* first in OpenOrder, and "Mp", the first in EnableOrder.                 *)
EXTENDS PluginLifecycle

OnePanel  == {"Rp"}
RadioOnly == <<"Rp">>
OneIn     == {OnePanel}
ShortReports == [p \in OnePanel |-> {<<"ijq">>, <<"ojq">>}]
OnePost   == [p \in OnePanel |-> 1]
OneEvents == [e \in Events |-> OnePost]

TwoPanels  == {"Rp", "Mp"}
RadioFirst == <<"Rp", "Mp">>
MultiFirst == <<"Mp", "Rp">>
AnyOfTwo   == SUBSET TwoPanels
NoReports  == [p \in TwoPanels |-> {}]
NoneOfTwo  == [p \in TwoPanels |-> 0]
OneOfTwo   == [p \in TwoPanels |-> 1]
NoEvents   == [e \in Events |-> NoneOfTwo]
============================================================================
