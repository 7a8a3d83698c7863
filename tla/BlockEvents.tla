------------------------------- MODULE BlockEvents -------------------------------
(***************************************************************************)
(* The commands that clear the events of stored blocks and put them back:    *)
(* export-block-events, cleanup-block-events and import-block-events         *)
(* (cmd/arkd/cmd/cleanup_block.go), run one after another by an operator      *)
(* between runs of the node, which has the state database open otherwise.    *)
(*                                                                         *)
(* A command takes its heights one at a time. At any step the database may   *)
(* fail it, or it may be killed.                                           *)
(*                                                                         *)
(* The events of a block and of each of its transactions are what was there  *)
(* when it was committed, or nothing: which events they are makes no         *)
(* difference here, whose they are does.                                    *)
(***************************************************************************)
EXTENDS Integers, Sequences

CONSTANTS
    Heights,
    NumTxs,        \* of each height, the number of transactions in its block
    ArgLists       \* bound: the lists of heights an operator names

ASSUME BlockEventsAssumption ==
    /\ NumTxs \in [Heights -> Nat]
    /\ ArgLists \subseteq Seq(Heights)

VARIABLES
    store,         \* of each height, the response stored, or NoResponse
    committed,     \* heights the node has committed
    file,          \* block-events-export.json: a list of exports, if it can be read
    cmd,           \* the command under way, or NoCommand
    careful,       \* history: whether the operator has kept to the rules below
    restored       \* history: no cleanup since the start, or the last complete import

vars == <<store, committed, file, cmd, careful, restored>>

NoResponse == [found |-> FALSE]
Unreadable == [readable |-> FALSE, exports |-> <<>>]   \* not there, or cut off in the middle
NoCommand == [name |-> "none"]

NoEvents == <<>>
EventsOf(h, i) == <<h, i>>     \* of the block for i = 0, or of its i-th transaction

Original(h) ==
    [found |-> TRUE, block |-> EventsOf(h, 0), txs |-> [i \in 1..NumTxs[h] |-> EventsOf(h, i)]]

Empty(h) ==
    [found |-> TRUE, block |-> NoEvents, txs |-> [i \in 1..NumTxs[h] |-> NoEvents]]

AsExport(h, resp) == [height |-> h, block |-> resp.block, txs |-> resp.txs]

Init ==
    /\ store = [h \in Heights |-> NoResponse]
    /\ committed = {}
    /\ file = Unreadable
    /\ cmd = NoCommand
    /\ careful = TRUE
    /\ restored = TRUE

Listed == {file.exports[i].height : i \in DOMAIN file.exports}

-------------------------------------------------------------------------------
(* Shared by the commands. A response that was stored has a result for each      *)
(* transaction.                                                             *)

LoadBlockEventsExport(h) == AsExport(h, store[h])

\* Mutant: the events of the transactions are taken in the wrong order.
ApplyReversed(resp, export) ==
    [found |-> TRUE, block |-> export.block,
     txs |-> [i \in DOMAIN resp.txs |->
                 IF i \in DOMAIN export.txs THEN export.txs[Len(resp.txs) + 1 - i] ELSE resp.txs[i]]]

\* applyBlockEventsExport: what it saves.
Apply(resp, export) ==
    [found |-> TRUE, block |-> export.block,
     txs |-> [i \in DOMAIN resp.txs |->
                 IF i \in DOMAIN export.txs THEN export.txs[i] ELSE resp.txs[i]]]

\* Mutant: the events of the transactions are kept.
ClearedBlockOnly(export) ==
    [export EXCEPT !.block = NoEvents]

Cleared(export) ==
    [height |-> export.height, block |-> NoEvents,
     txs |-> [i \in DOMAIN export.txs |-> NoEvents]]

Running(name, pc) == cmd # NoCommand /\ cmd.name = name /\ cmd.pc = pc

Start(name, todo) ==
    cmd' = [name |-> name, pc |-> "next", todo |-> todo, done |-> <<>>, missed |-> FALSE,
            frame |-> store]

\* The step for the first of what is left failed, and the command goes on.
Skip == cmd' = [cmd EXCEPT !.pc = "next", !.todo = Tail(@), !.missed = TRUE]

\* It is done, and reported.
Done(item) == cmd' = [cmd EXCEPT !.pc = "next", !.todo = Tail(@), !.done = Append(@, item)]

Finished(name) == Running(name, "next") /\ cmd.todo = <<>>
Pending(name) == Running(name, "next") /\ cmd.todo # <<>>

-------------------------------------------------------------------------------
(* export-block-events *)

\* The rule: no export over the file that holds events that were cleared.
StartExport(heights) ==
    /\ cmd = NoCommand
    /\ Start("export", heights)
    /\ careful' = (careful /\ restored)
    /\ UNCHANGED <<store, committed, file, restored>>

ExportHeight ==
    /\ Pending("export")
    /\ store[Head(cmd.todo)].found
    /\ Done(LoadBlockEventsExport(Head(cmd.todo)))
    /\ UNCHANGED <<store, committed, file, careful, restored>>

\* Mutant: a height that cannot be loaded is exported with nothing.
ExportNothing ==
    /\ Pending("export")
    /\ Done([height |-> Head(cmd.todo), block |-> NoEvents,
             txs |-> [i \in 1..NumTxs[Head(cmd.todo)] |-> NoEvents]])
    /\ UNCHANGED <<store, committed, file, careful, restored>>

\* What is not there, or cannot be read, is left out.
ExportMisses ==
    /\ Pending("export")
    /\ Skip
    /\ UNCHANGED <<store, committed, file, careful, restored>>

\* os.WriteFile empties the file first.
Truncate ==
    /\ Finished("export")
    /\ file' = Unreadable
    /\ cmd' = [cmd EXCEPT !.pc = "writing"]
    /\ UNCHANGED <<store, committed, careful, restored>>

WriteFile ==
    /\ Running("export", "writing")
    /\ file' = [readable |-> TRUE, exports |-> cmd.done]
    /\ cmd' = NoCommand
    /\ UNCHANGED <<store, committed, careful, restored>>

-------------------------------------------------------------------------------
(* cleanup-block-events *)

\* The rule: only heights the file lists.
StartCleanup(heights) ==
    /\ cmd = NoCommand
    /\ Start("cleanup", heights)
    /\ careful' = (careful /\ \A i \in DOMAIN heights : heights[i] \in Listed)
    /\ restored' = FALSE
    /\ UNCHANGED <<store, committed, file>>

CleanupHeight ==
    /\ Pending("cleanup")
    /\ LET h == Head(cmd.todo)
       IN  /\ store[h].found
           /\ store' = [store EXCEPT ![h] = Apply(@, Cleared(LoadBlockEventsExport(h)))]
    /\ cmd' = [cmd EXCEPT !.pc = "saved"]
    /\ UNCHANGED <<committed, file, careful, restored>>

CleanupReports ==
    /\ Running("cleanup", "saved")
    /\ Done(Head(cmd.todo))
    /\ UNCHANGED <<store, committed, file, careful, restored>>

CleanupMisses ==
    /\ Pending("cleanup")
    /\ Skip
    /\ UNCHANGED <<store, committed, file, careful, restored>>

\* Mutant: a response that cannot be saved is reported as cleaned.
CleanupIgnoresFailure ==
    /\ Pending("cleanup")
    /\ Done(Head(cmd.todo))
    /\ UNCHANGED <<store, committed, file, careful, restored>>

\* A response that cannot be saved, or loaded a second time, ends the command.
CleanupFails ==
    /\ Pending("cleanup")
    /\ store[Head(cmd.todo)].found
    /\ cmd' = NoCommand
    /\ UNCHANGED <<store, committed, file, careful, restored>>

CleanupEnds ==
    /\ Finished("cleanup")
    /\ cmd' = NoCommand
    /\ UNCHANGED <<store, committed, file, careful, restored>>

-------------------------------------------------------------------------------
(* import-block-events *)

\* A file that is not there or does not parse ends the command before it begins.
StartImport ==
    /\ cmd = NoCommand
    /\ file.readable
    /\ Start("import", file.exports)
    /\ UNCHANGED <<store, committed, file, careful, restored>>

ImportHeight ==
    /\ Pending("import")
    /\ LET export == Head(cmd.todo)
       IN  /\ store[export.height].found
           /\ store' = [store EXCEPT ![export.height] = Apply(@, export)]
    /\ cmd' = [cmd EXCEPT !.pc = "saved"]
    /\ UNCHANGED <<committed, file, careful, restored>>

ImportReports ==
    /\ Running("import", "saved")
    /\ Done(Head(cmd.todo))
    /\ UNCHANGED <<store, committed, file, careful, restored>>

\* What cannot be loaded or saved is left as it is.
ImportMisses ==
    /\ Pending("import")
    /\ Skip
    /\ UNCHANGED <<store, committed, file, careful, restored>>

\* It says of how many heights the events were restored.
ImportEnds ==
    /\ Finished("import")
    /\ cmd' = NoCommand
    /\ restored' = (restored \/ ~cmd.missed)
    /\ UNCHANGED <<store, committed, file, careful>>

-------------------------------------------------------------------------------

\* The process is killed, or the database cannot be opened, or the file not written.
Killed ==
    /\ cmd # NoCommand
    /\ cmd' = NoCommand
    /\ UNCHANGED <<store, committed, file, careful, restored>>

\* The node runs: it commits a block, or prunes one.
Commit(h) ==
    /\ cmd = NoCommand
    /\ h \notin committed
    /\ committed' = committed \cup {h}
    /\ store' = [store EXCEPT ![h] = Original(h)]
    /\ UNCHANGED <<file, cmd, careful, restored>>

Prune(h) ==
    /\ cmd = NoCommand
    /\ store[h].found
    /\ store' = [store EXCEPT ![h] = NoResponse]
    /\ UNCHANGED <<committed, file, cmd, careful, restored>>

Export ==
    \/ \E heights \in ArgLists : StartExport(heights)
    \/ ExportHeight \/ ExportMisses \/ Truncate \/ WriteFile

Cleanup ==
    \/ \E heights \in ArgLists : StartCleanup(heights)
    \/ CleanupHeight \/ CleanupReports \/ CleanupMisses \/ CleanupFails \/ CleanupEnds

Import ==
    \/ StartImport
    \/ ImportHeight \/ ImportReports \/ ImportMisses \/ ImportEnds

Next ==
    \/ Export
    \/ Cleanup
    \/ Import
    \/ Killed
    \/ \E h \in Heights : Commit(h) \/ Prune(h)

Spec == Init /\ [][Next]_vars

-------------------------------------------------------------------------------
(* Properties *)

Response(h) ==
    {resp \in [found : {TRUE}, block : {EventsOf(h, 0), NoEvents},
               txs : [1..NumTxs[h] -> {EventsOf(h, i) : i \in 1..NumTxs[h]} \cup {NoEvents}]] :
        \A i \in 1..NumTxs[h] : resp.txs[i] \in {EventsOf(h, i), NoEvents}}

\* Nobody's events are ever another's.
TypeOK ==
    /\ DOMAIN store = Heights
    /\ \A h \in Heights : store[h] \in Response(h) \cup {NoResponse}
    /\ committed \subseteq Heights
    /\ file.readable \in BOOLEAN
    /\ \A i \in DOMAIN file.exports : \E h \in Heights : \E resp \in Response(h) :
           file.exports[i] = AsExport(h, resp)
    /\ cmd # NoCommand =>
           /\ cmd.name \in {"export", "cleanup", "import"}
           /\ cmd.pc \in {"next", "saved", "writing"}
           /\ cmd.missed \in BOOLEAN
    /\ careful \in BOOLEAN
    /\ restored \in BOOLEAN

\* The events of a block are all there or all gone, in the store and in the file,
\* wherever a command was cut off.
Whole ==
    /\ \A h \in Heights : store[h] \in {NoResponse, Original(h), Empty(h)}
    /\ \A i \in DOMAIN file.exports :
           \E h \in Heights : file.exports[i] \in {AsExport(h, Original(h)), AsExport(h, Empty(h))}

\* An operator who only clears what the last export lists, and does not export again
\* before an import has restored it all, can get back the events of every block that
\* was not pruned - whatever was cut off, missed or failed.
Recoverable ==
    careful =>
        \A h \in Heights :
            \/ store[h] \in {NoResponse, Original(h)}
            \/ \E i \in DOMAIN file.exports : file.exports[i] = AsExport(h, Original(h))

\* The height of an item: a cleanup has heights, an import has exports.
Target(x) == IF cmd.name = "cleanup" THEN x ELSE x.height

CommandEnd ==
    cmd # NoCommand /\ cmd.name # "export" /\ cmd' = NoCommand =>
        /\ \A i \in DOMAIN cmd.done :
               LET x == cmd.done[i]
               IN  IF cmd.name = "cleanup" THEN store'[x] = Empty(x)
                                           ELSE AsExport(x.height, store'[x.height]) = x
        /\ \A h \in Heights :
               \/ store'[h] = cmd.frame[h]
               \/ \E i \in DOMAIN cmd.done : Target(cmd.done[i]) = h
               \/ cmd.pc = "saved" /\ h = Target(Head(cmd.todo))

\* What a command reports of a height is so when it ends, however it ends, and what it
\* did not get to is as it was - but for one height it was cut off at.
ReportsExact == [][CommandEnd]_vars
================================================================================
