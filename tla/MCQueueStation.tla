--------------------------- MODULE MCQueueStation ---------------------------
(* Small instances of QueueStation and of its operational laws for TLC.    *)
EXTENDS QueueStationLaws

MCServiceTimes  == {1, 5}
MCReplyTypes    == {TRANSITION, REPLY}
MCStale         == {9}
MCNoStale       == {0}

=============================================================================
