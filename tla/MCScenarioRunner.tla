--------------------------- MODULE MCScenarioRunner ---------------------------
(* Scenarios of at most two steps drawn from every kind the code tells apart;
   the steps that validation must refuse are among the candidates. *)
EXTENDS ScenarioRunner

NoTimeout == {}
After(n) == {[number |-> n, quoted |-> FALSE]}
Text(n) == {[number |-> n, quoted |-> TRUE]}

Blank == [action |-> "click", selector |-> FALSE, value |-> "none", env |-> "none",
          attribute |-> FALSE, counts |-> {}, timeout |-> NoTimeout]
OnElement(action) == [Blank EXCEPT !.action = action, !.selector = TRUE]

Navigate == [Blank EXCEPT !.action = "navigate", !.value = "same"]
Actions ==
    {Navigate, [Navigate EXCEPT !.value = "other"],
     [OnElement("click") EXCEPT !.timeout = After(5)],
     [OnElement("fill") EXCEPT !.env = "set"],
     [Blank EXCEPT !.action = "wait_for", !.timeout = After(3)]}
Assertions ==
    {OnElement("assert_visible"), OnElement("assert_hidden"), OnElement("assert_disabled"),
     OnElement("assert_text"), [OnElement("assert_text") EXCEPT !.env = "empty"],
     [OnElement("assert_text") EXCEPT !.env = "set"],
     [OnElement("assert_attribute") EXCEPT !.attribute = TRUE],
     [OnElement("assert_text_equals") EXCEPT !.value = "blank"],
     [OnElement("assert_count") EXCEPT !.counts = {2}],
     [Blank EXCEPT !.action = "assert_title"]}
Second ==
    {OnElement("assert_visible"), [Blank EXCEPT !.action = "assert_title", !.timeout = After(4)]}
Refusable ==
    {OnElement("fill"), Blank, OnElement("assert_attribute"),
     [Navigate EXCEPT !.value = "none"], OnElement("assert_count"),
     [Blank EXCEPT !.action = "hover"], [Navigate EXCEPT !.timeout = After(9)],
     [OnElement("fill") EXCEPT !.env = "unset"]}

MCCandidates ==
    [steps : {<<s>> : s \in Actions \cup Assertions \cup Refusable}
             \cup {<<a, b>> : a \in Actions, b \in Actions \cup Second},
     timeout : {NoTimeout, After(2)}] \cup {[steps |-> <<>>, timeout |-> NoTimeout]}

Usual == [target |-> "local", engine |-> "chromium", installed |-> TRUE,
          allowExternal |-> FALSE, screenshots |-> FALSE]
MCOptions ==
    {Usual, [Usual EXCEPT !.screenshots = TRUE], [Usual EXCEPT !.installed = FALSE],
     [Usual EXCEPT !.engine = "unknown"],
     [Usual EXCEPT !.target = "external", !.allowExternal = TRUE],
     [Usual EXCEPT !.target = "external"], [Usual EXCEPT !.target = "other"]}

(* Timeouts that a scenario file may quote. *)
MCQuotedCandidates ==
    [steps : {<<Navigate, [Navigate EXCEPT !.timeout = t]>> : t \in {NoTimeout, Text(2)}},
     timeout : {NoTimeout, After(2), Text(2)}]
=============================================================================
