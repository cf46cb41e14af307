--------------------------- MODULE MCAgentGateway ---------------------------
\* A task or a note under one operation, an archival of either under another,
\* a legacy reservation and a read, of one commercial case.  The archival is
\* admitted a tick after the task and the note, the read at the next version.
EXTENDS AgentGateway, TLC

CONSTANTS h1, h2, deal, doTask, aNote, retire, retireNote, oldNote, look

Anything ==
    [operation |-> "task", tool |-> "task", case |-> deal, type |-> "COMMERCIAL",
     version |-> 1, target |-> None, affirmed |-> TRUE, sound |-> TRUE,
     bound |-> TRUE]

Archival(of) ==
    [Anything EXCEPT !.operation = "retire", !.tool = "archive", !.target = of]

MCCallOf ==
    [c \in Calls |->
        CASE c = doTask     -> Anything
          [] c = aNote      -> [Anything EXCEPT !.tool = "note"]
          [] c = retire     -> Archival(doTask)
          [] c = retireNote -> Archival(aNote)
          [] c = oldNote    -> [Anything EXCEPT !.operation = "note", !.tool = "note"]
          [] c = look       -> [Anything EXCEPT !.operation = "look", !.tool = "evidence",
                                                !.version = 2, !.affirmed = FALSE]]

AdmissionFor(operation, effect, v, from) ==
    [operation |-> operation, effect |-> effect, case |-> deal, version |-> v,
     decided |-> from, freshUntil |-> from + 1]

MCAdmissions ==
    {AdmissionFor("task", "A1", 1, 0), AdmissionFor("retire", "A1", 1, 1),
     AdmissionFor("look", "A0", 2, 0)}

MCOperations == {"task", "retire", "note", "look"}
Interchangeable == Permutations({h1, h2})
=============================================================================
