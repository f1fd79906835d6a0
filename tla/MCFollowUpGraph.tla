--------------------------- MODULE MCFollowUpGraph ---------------------------
EXTENDS FollowUpGraphRun

\* A retried task, a loop whose body is a retried task, a choice on the first task.
MCLooping ==
    [entry |-> "t",
     kind  |-> [n \in {"t", "l", "body", "c", "good", "bad"} |->
                   CASE n = "t"    -> Task(2)
                     [] n = "l"    -> Loop(3)
                     [] n = "body" -> Task(2)
                     [] n = "c"    -> Choice
                     [] n = "good" -> Terminate("Success")
                     [] n = "bad"  -> Terminate("Failure")],
     edges |-> {Edge("t", "l", "Forward", None, Always),
                Edge("l", "body", "LoopBody", "l", LoopIs("l", "Continue")),
                Edge("body", "l", "LoopBack", "l", Always),
                Edge("l", "c", "Forward", None, LoopIs("l", "Exit")),
                Edge("c", "good", "Forward", None, OutcomeIs("t", "Success")),
                Edge("c", "bad", "Forward", None, OutcomeIs("t", "Failure"))}]

\* A valid definition whose two branches never join: it cannot terminate.
MCStranded ==
    [entry |-> "f",
     kind  |-> [n \in {"f", "a", "l", "b", "ta", "tb"} |->
                   CASE n = "f" -> Fork
                     [] n \in {"a", "b"} -> Task(1)
                     [] n = "l" -> Loop(3)
                     [] n = "ta" -> Terminate("Success")
                     [] n = "tb" -> Terminate("Failure")],
     edges |-> {Edge("f", "a", "Forward", None, Always),
                Edge("f", "l", "Forward", None, Always),
                Edge("l", "b", "LoopBody", "l", LoopIs("l", "Continue")),
                Edge("b", "l", "LoopBack", "l", Always),
                Edge("a", "ta", "Forward", None, Always),
                Edge("l", "tb", "Forward", None, LoopIs("l", "Exit"))}]

\* A valid definition whose loop may overtake a branch that its body forked.
MCOverrun ==
    [entry |-> "l",
     kind  |-> [n \in {"l", "f", "a", "b", "t", "u"} |->
                   CASE n = "f" -> Fork
                     [] n \in {"a", "b"} -> Task(1)
                     [] n = "l" -> Loop(3)
                     [] n = "t" -> Terminate("Success")
                     [] n = "u" -> Terminate("Failure")],
     edges |-> {Edge("l", "f", "LoopBody", "l", LoopIs("l", "Continue")),
                Edge("f", "a", "LoopBody", "l", Always),
                Edge("f", "b", "LoopBody", "l", Always),
                Edge("a", "l", "LoopBack", "l", Always),
                Edge("b", "u", "LoopBody", "l", Always),
                Edge("l", "t", "Forward", None, LoopIs("l", "Exit"))}]

MCDefinitions == {MCLooping}
MCStranding   == {MCStranded, MCOverrun}
MCBatches     == {{"i1"}, {"i1", "i2"}, {"i1", "i2", "i3"}}
==============================================================================
