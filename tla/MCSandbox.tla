------------------------------ MODULE MCSandbox ------------------------------
(* Two submissions with programs of up to two tests.                        *)
EXTENDS Sandbox

CONSTANTS s1, s2

MCSubmissions == {s1, s2}

Python(contained, alone) ==
    [ language |-> "python", analysable |-> TRUE, forbidden |-> FALSE, complete |-> TRUE,
      loads |-> "ok", contained |-> contained, alone |-> alone ]

Right == Python(<<"right">>, <<"right">>)
Empty == Python(<< >>, << >>)

MCPrograms ==
    { Right,
      Python(<<"right", "wrong">>, <<"wrong", "right">>),
      [Python(<<"right">>, <<"exits">>) EXCEPT !.loads = "exits"],
      Python(<<"loops">>, <<"loops">>),
      [Right EXCEPT !.forbidden = TRUE],
      [Right EXCEPT !.analysable = FALSE],
      Empty,
      [Right EXCEPT !.language = "other"],
      [Empty EXCEPT !.language = "other", !.complete = FALSE] }
=============================================================================
