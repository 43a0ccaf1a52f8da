---------------------------- MODULE CoverageGate ----------------------------
(***************************************************************************)
(* `gmcli coverage verify` (cmd/coverage.go) over the tables that a sync   *)
(* (FolderSync) and backfills are writing: buildCoverageReport reads       *)
(* conversation coverage and folder coverage in two queries, outside a     *)
(* transaction.                                                            *)
(***************************************************************************)
EXTENDS FolderSync

VARIABLES
    exhausted,       \* conversations whose status is source_exhausted
    gate,            \* coverage verify: control and verdict
    allExhausted,    \* what its first query found
    accounted,       \* history: exhausted at that query, or first stored since
    dropped          \* history: not stored, because the pump's upsert failed

verify  == <<gate, allExhausted>>
allVars == <<vars, exhausted, verify, accounted, dropped>>

GateInit ==
    /\ Init
    /\ exhausted = {} /\ gate = "idle" /\ allExhausted = FALSE
    /\ accounted = {} /\ dropped = {}

\* Mutant: only folders that sync has tried are counted.
TriedFoldersMutant == \A f \in Folder : coverage[f] \in {"complete", "missing"}

FoldersComplete == \A f \in Folder : coverage[f] = "complete"

\* The status a backfill leaves (HistoryBackfill): a later attempt may withdraw
\* the exhaustion, by a page with messages.
Exhaust(c) ==
    /\ c \in conversations
    /\ exhausted' = exhausted \cup {c}
    /\ UNCHANGED <<vars, verify>>

Demote(c) ==
    /\ exhausted' = exhausted \ {c}
    /\ UNCHANGED <<vars, verify>>

ListConversationCoverage ==
    /\ gate = "idle"
    /\ allExhausted' = (conversations \subseteq exhausted)
    /\ gate' = "folders"
    /\ UNCHANGED <<vars, exhausted>>

ListFolderCoverage ==
    /\ gate = "folders"
    /\ gate' = IF allExhausted /\ FoldersComplete THEN "complete" ELSE "incomplete"
    /\ UNCHANGED <<vars, exhausted, allExhausted>>

Report ==
    /\ gate \in {"complete", "incomplete"}
    /\ gate' = "idle" /\ allExhausted' = FALSE
    /\ UNCHANGED <<vars, exhausted>>

Observe ==
    /\ accounted' = CASE gate' = "idle" -> {}
                      [] gate = "idle" /\ gate' = "folders" -> conversations \cap exhausted
                      [] OTHER -> accounted \cup (conversations' \ conversations)
    /\ dropped' = (IF pc = "persist" /\ pc' = "persist" THEN dropped \cup (pending \ pending') ELSE dropped)
                  \ conversations'

Sync == SyncStep /\ UNCHANGED <<exhausted, verify>> /\ Observe

Command ==
    \/ Next /\ UNCHANGED <<exhausted, verify>>
    \/ \E c \in Conv : Exhaust(c) \/ Demote(c)
    \/ ListConversationCoverage \/ ListFolderCoverage \/ Report

GateNext == Command /\ Observe

\* Each listing request of a sync is bounded by conversationFolderTimeout.
GateSpec == GateInit /\ [][GateNext]_allVars /\ WF_allVars(Sync)

-----------------------------------------------------------------------------
(* Properties.                                                             *)

\* README.md:254, "the final relay completeness gate": when verify says
\* complete, each conversation that the relay lists in a required folder was
\* exhausted when verify looked, was first stored after that, or is missing
\* because the pump could not store it, which sync has to report.
CompleteIsAccounted ==
    gate = "complete" =>
        \A f \in Folder : ToSet(Listing[f]) \subseteq accounted \cup dropped

\* Nothing is left to do but to follow.
Settled == pc = "idle" \/ (pc = "following" /\ ~fatal)

\* A sync ends or follows, whatever cursors the relay answers with and whoever
\* else reads and writes its tables, and one that follows ends when its pump
\* cannot store an event.
SyncReturns == ~Settled ~> Settled
=============================================================================
