\* Two tasks, five calls, one change by another client.
SPECIFICATION Spec
CONSTANTS
    t1 = t1
    t2 = t2
    null = null
    Tasks = {t1, t2}
    NoTask = null
    MaxCalls = 5
    MaxOthers = 1
    Faults = {"fails", "answer_lost"}
    blank = blank
    word = word
    long = long
    Bodies = {blank, word, long}
    EmptyBody = blank
    Length <- MCLength
    Bytes <- MCBytes
    MaxTitle = 2
    MaxDescription = 3
    MaxBody = 8
    Instants = {0, 1, 2, 3, 4, 5, 6}
    LastIso = 5
    Minutes = {0, 1, 2}
    Shown <- MCShown
    Meant <- MCMeant
    Nothing = nothing
INVARIANTS TypeOK ListAgrees LogShowsDeletions ControlsFollowCalls
PROPERTIES DeletedStaysGone
SYMMETRY MCSymmetry
