---------------------------- MODULE MCTabSession ----------------------------
(* Instances of TabSession for TLC. *)
EXTENDS TabSession, TLC

CONSTANTS t1, t2

MCTabs == {t1, t2}
Work(does, troubles) == [does |-> does, faults |-> troubles]

\* What is held or planned when a tab is left, closed, lost or opened; windows
\* and pages that change under what was seen; a switch while a connection or a
\* recovery attaches to another tab; a session lost between pause and resume
MCPrograms == {
    Work(<<"observe", "click", "observe", "click">>, 1),
    Work(<<"observe", "drag", "switch_tab">>, 1),
    Work(<<"key_down", "close_tab">>, 1),
    Work(<<"observe", "double_click", "new_window">>, 1),
    Work(<<"close_window">>, 1), Work(<<"activate_window">>, 0),
    Work(<<"raw_down", "back", "dialog">>, 1), Work(<<"raw_down">>, 2), Work(<<>>, 3),
    Work(<<"switch_tab", "switch_tab", "observe", "click">>, 0) }
=============================================================================
