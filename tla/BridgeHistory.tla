---------------------------- MODULE BridgeHistory ----------------------------
(***************************************************************************)
(* A fetch together with what JVStatus has answered to the bridge so far:  *)
(* a history variable, which decides nothing.                              *)
(***************************************************************************)
EXTENDS BridgeProps

VARIABLE answers    \* the last answer, and how often in a row it came

historyVars == <<vars, answers>>

HistoryInit == Init /\ answers = [count |-> -1, times |-> 0]

\* A poll of JVStatus, awaiting the download or between two calls of JVGets.
Poll == WaitDownload \/ PollDownload

\* Answers are counted up to the first number the property tells from the others.
MaxTimes == Limit + 3

Heard ==
    [count |-> jv.got,
     times |-> IF jv.got # answers.count THEN 1
               ELSE IF answers.times < MaxTimes THEN answers.times + 1 ELSE MaxTimes]

HistoryNext == Next /\ answers' = IF Poll THEN Heard ELSE answers

HistorySpec == HistoryInit /\ [][HistoryNext]_historyVars
FairHistorySpec ==
    HistorySpec /\ WF_vars(BridgeStep) /\ WF_vars(HostStep) /\ WF_vars(Consume)

\* A download is given up when it stands still, and only then: the poll that gives
\* up has heard the same answer more than limit times after the first, in whichever
\* of the three loops, and one that goes on at most one time more, since the last
\* poll of the wait for the download is not counted (jvlink-bridge.rs:382-415,
\* 462-473).
OnlyStillDownloadsAreGivenUp ==
    [][Poll => IF at' = "exit0" THEN answers'.times - 1 > Limit
                                ELSE answers'.times - 1 <= Limit + 1]_historyVars
=============================================================================
