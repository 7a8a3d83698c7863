----------------------------- MODULE BlockEventsProofs ---------------------------
(***************************************************************************)
(* That clearing and restoring the events of blocks loses none of them while  *)
(* the operator keeps to the rules of BlockEvents, and that the commands     *)
(* report what they did - for all blocks, lists of heights and interruptions.*)
(***************************************************************************)
EXTENDS BlockEvents, TLAPS

\* What the file may list, and of it, what restores the events of a block.
Originals == {AsExport(h, Original(h)) : h \in Heights}
Exports == Originals \cup {AsExport(h, Empty(h)) : h \in Heights}

Stores == {s \in [Heights -> UNION {{NoResponse, Original(h), Empty(h)} : h \in Heights}] :
               \A h \in Heights : s[h] \in {NoResponse, Original(h), Empty(h)}}

ExportCommand ==
    [name : {"export"}, pc : {"next", "writing"}, todo : Seq(Heights), done : Seq(Exports),
     missed : BOOLEAN, frame : Stores]

CleanupCommand ==
    [name : {"cleanup"}, pc : {"next", "saved"}, todo : Seq(Heights), done : Seq(Heights),
     missed : BOOLEAN, frame : Stores]

ImportCommand ==
    [name : {"import"}, pc : {"next", "saved"}, todo : Seq(Exports), done : Seq(Exports),
     missed : BOOLEAN, frame : Stores]

Types ==
    /\ store \in Stores
    /\ committed \subseteq Heights
    /\ file \in [readable : BOOLEAN, exports : Seq(Exports)]
    /\ cmd \in ExportCommand \cup CleanupCommand \cup ImportCommand \cup {NoCommand}
    /\ careful \in BOOLEAN
    /\ restored \in BOOLEAN

In(x, seq) == \E i \in DOMAIN seq : seq[i] = x

\* The file says one thing of a height.
FileAgrees ==
    \A i, j \in DOMAIN file.exports :
        file.exports[i].height = file.exports[j].height => file.exports[i] = file.exports[j]

\* An export has what is stored.
Exporting ==
    cmd # NoCommand /\ cmd.name = "export" =>
        /\ \A i \in DOMAIN cmd.done : cmd.done[i] = AsExport(cmd.done[i].height, store[cmd.done[i].height])
        /\ \A i \in DOMAIN cmd.done : store[cmd.done[i].height] # NoResponse
        /\ careful => restored

\* A cleanup has cleared what it reports, and the height it is at.
Cleaning ==
    cmd # NoCommand /\ cmd.name = "cleanup" =>
        /\ careful => \A i \in DOMAIN cmd.todo : cmd.todo[i] \in Listed
        /\ \A i \in DOMAIN cmd.done : store[cmd.done[i]] = Empty(cmd.done[i])
        /\ cmd.pc = "saved" => cmd.todo # <<>> /\ store[Head(cmd.todo)] = Empty(Head(cmd.todo))
        /\ \A h \in Heights :
               \/ store[h] = cmd.frame[h]
               \/ In(h, cmd.done)
               \/ cmd.pc = "saved" /\ h = Head(cmd.todo)
        /\ ~restored

Restores(e) == store[e.height] # NoResponse /\ e = AsExport(e.height, store[e.height])

\* An import has restored what it reports, and the height it is at; and what is still
\* cleared, if it missed nothing, is still to come.
Importing ==
    cmd # NoCommand /\ cmd.name = "import" =>
        /\ \A i \in DOMAIN cmd.todo : In(cmd.todo[i], file.exports)
        /\ \A i \in DOMAIN cmd.done : In(cmd.done[i], file.exports) /\ Restores(cmd.done[i])
        /\ cmd.pc = "saved" => cmd.todo # <<>> /\ Restores(Head(cmd.todo))
        /\ \A h \in Heights :
               \/ store[h] = cmd.frame[h]
               \/ \E i \in DOMAIN cmd.done : cmd.done[i].height = h
               \/ cmd.pc = "saved" /\ h = Head(cmd.todo).height
        /\ careful /\ ~cmd.missed =>
               \A h \in Heights : store[h] # Empty(h) \/ In(AsExport(h, Original(h)), cmd.todo)

\* Under the rules the file restores, and nothing is cleared while all is restored.
Kept ==
    careful =>
        /\ \A i \in DOMAIN file.exports : file.exports[i] \in Originals
        /\ \A h \in Heights : store[h] # Empty(h) \/ In(AsExport(h, Original(h)), file.exports)
        /\ restored => \A h \in Heights : store[h] # Empty(h)

IInv == Types /\ FileAgrees /\ Exporting /\ Cleaning /\ Importing /\ Kept

-------------------------------------------------------------------------------
(* Responses and exports *)

LEMMA Responses ==
    ASSUME NEW h \in Heights
    PROVE  /\ Original(h).found /\ Empty(h).found /\ ~NoResponse.found
           /\ Original(h) # NoResponse /\ Empty(h) # NoResponse
           /\ Original(h) # Empty(h)
           /\ \A resp : AsExport(h, resp).height = h
           /\ AsExport(h, Original(h)) \in Originals
           /\ AsExport(h, Original(h)) \in Exports
           /\ AsExport(h, Empty(h)) \in Exports
<1>1. Len(EventsOf(h, 0)) = 2 /\ Len(NoEvents) = 0
  BY DEF EventsOf, NoEvents
<1>2. EventsOf(h, 0) # NoEvents
  BY <1>1
<1>3. Original(h).block = EventsOf(h, 0) /\ Empty(h).block = NoEvents
  BY DEF Original, Empty
<1>4. Original(h) # Empty(h)
  BY <1>2, <1>3
<1>5. Original(h).found /\ Empty(h).found /\ ~NoResponse.found
  BY DEF Original, Empty, NoResponse
<1>6. \A resp : AsExport(h, resp).height = h
  BY DEF AsExport
<1>7. QED
  BY <1>4, <1>5, <1>6 DEF Originals, Exports

\* applyBlockEventsExport saves exactly the export of the same height.
LEMMA ApplyExact ==
    ASSUME NEW h \in Heights,
           NEW resp \in {Original(h), Empty(h)}, NEW other \in {Original(h), Empty(h)}
    PROVE  Apply(resp, AsExport(h, other)) = other
<1>1. NumTxs[h] \in Nat
  BY BlockEventsAssumption
<1>2. DOMAIN resp.txs = 1..NumTxs[h] /\ DOMAIN other.txs = 1..NumTxs[h]
  BY DEF Original, Empty
<1>3. [i \in DOMAIN resp.txs |-> IF i \in DOMAIN other.txs THEN other.txs[i] ELSE resp.txs[i]] = other.txs
  <2>1. \A D : [i \in D |-> IF i \in D THEN other.txs[i] ELSE resp.txs[i]] = [i \in D |-> other.txs[i]]
    OBVIOUS
  <2>2. other.txs = [i \in 1..NumTxs[h] |-> other.txs[i]]
    <3>1. PICK f : other.txs = [i \in 1..NumTxs[h] |-> f[i]]
      <4>1. CASE other = Original(h)
        <5>1. other.txs = [i \in 1..NumTxs[h] |-> EventsOf(h, i)]
          BY <4>1 DEF Original
        <5>2. QED
          BY <5>1
      <4>2. CASE other = Empty(h)
        <5>1. other.txs = [i \in 1..NumTxs[h] |-> NoEvents]
          BY <4>2 DEF Empty
        <5>2. QED
          BY <5>1
      <4>3. QED
        BY <4>1, <4>2
    <3>2. QED
      BY <3>1
  <2>3. QED
    BY <1>2, <2>1, <2>2
<1>4. Apply(resp, AsExport(h, other)) = [found |-> TRUE, block |-> other.block, txs |-> other.txs]
  BY <1>3 DEF Apply, AsExport
<1>5. other = [found |-> TRUE, block |-> other.block, txs |-> other.txs]
  BY DEF Original, Empty
<1>6. QED
  BY <1>4, <1>5

LEMMA ClearedEmpty ==
    ASSUME NEW h \in Heights, NEW resp \in {Original(h), Empty(h)}
    PROVE  Cleared(AsExport(h, resp)) = AsExport(h, Empty(h))
<1>1. DOMAIN resp.txs = 1..NumTxs[h]
  BY DEF Original, Empty
<1>2. Cleared(AsExport(h, resp)) =
        [height |-> h, block |-> NoEvents, txs |-> [i \in DOMAIN resp.txs |-> NoEvents]]
  BY DEF Cleared, AsExport
<1>3. AsExport(h, Empty(h)) =
        [height |-> h, block |-> NoEvents, txs |-> [i \in 1..NumTxs[h] |-> NoEvents]]
  BY DEF AsExport, Empty
<1>4. QED
  BY <1>1, <1>2, <1>3

LEMMA ExportForms ==
    ASSUME NEW e \in Exports
    PROVE  /\ e.height \in Heights
           /\ \E resp \in {Original(e.height), Empty(e.height)} : e = AsExport(e.height, resp)
           /\ e \in Originals => e = AsExport(e.height, Original(e.height))
<1>1. PICK h \in Heights : e = AsExport(h, Original(h)) \/ e = AsExport(h, Empty(h))
  BY DEF Exports, Originals
<1>2. e.height = h
  BY <1>1, Responses
<1>3. ASSUME e \in Originals
      PROVE  e = AsExport(e.height, Original(e.height))
  <2>1. PICK g \in Heights : e = AsExport(g, Original(g))
    BY <1>3 DEF Originals
  <2>2. e.height = g
    BY <2>1, Responses
  <2>3. QED
    BY <2>1, <2>2
<1>4. QED
  BY <1>1, <1>2, <1>3

LEMMA StoreForms ==
    ASSUME NEW s \in Stores, NEW h \in Heights
    PROVE  /\ s[h] \in {NoResponse, Original(h), Empty(h)}
           /\ s[h].found <=> s[h] # NoResponse
BY Responses DEF Stores

LEMMA StoreWrites ==
    ASSUME store \in Stores, NEW h \in Heights, NEW resp \in {NoResponse, Original(h), Empty(h)},
           store' = [store EXCEPT ![h] = resp]
    PROVE  store' \in Stores /\ store'[h] = resp /\ \A g \in Heights \ {h} : store'[g] = store[g]
BY DEF Stores

-------------------------------------------------------------------------------
(* Lists *)

LEMMA Tails ==
    ASSUME NEW S, NEW s \in Seq(S), s # <<>>
    PROVE  /\ Tail(s) \in Seq(S)
           /\ Head(s) \in S
           /\ In(Head(s), s)
           /\ \A i \in DOMAIN Tail(s) : i + 1 \in DOMAIN s /\ Tail(s)[i] = s[i + 1]
           /\ \A x : In(x, s) => x = Head(s) \/ In(x, Tail(s))
           /\ \A x : In(x, Tail(s)) => In(x, s)
<1>1. Len(s) \in Nat /\ Len(s) > 0 /\ DOMAIN s = 1..Len(s)
  OBVIOUS
<1>2. Tail(s) \in Seq(S) /\ Len(Tail(s)) = Len(s) - 1 /\ Head(s) = s[1]
  BY <1>1
<1>3. \A i \in DOMAIN Tail(s) : i + 1 \in DOMAIN s /\ Tail(s)[i] = s[i + 1]
  BY <1>1, <1>2
<1>4. In(Head(s), s) /\ Head(s) \in S
  BY <1>1, <1>2 DEF In
<1>5. ASSUME NEW x, In(x, s) PROVE x = Head(s) \/ In(x, Tail(s))
  <2>1. PICK i \in 1..Len(s) : s[i] = x
    BY <1>1, <1>5 DEF In
  <2>2. CASE i = 1
    BY <1>2, <2>1, <2>2
  <2>3. CASE i # 1
    <3>1. i - 1 \in 1..Len(Tail(s)) /\ (i - 1) + 1 = i
      BY <1>1, <1>2, <2>1, <2>3
    <3>2. Tail(s)[i - 1] = x /\ i - 1 \in DOMAIN Tail(s)
      BY <1>2, <1>3, <2>1, <3>1
    <3>3. QED
      BY <3>2 DEF In
  <2>4. QED
    BY <2>2, <2>3
<1>6. \A x : In(x, Tail(s)) => In(x, s)
  BY <1>3 DEF In
<1>7. QED
  BY <1>2, <1>3, <1>4, <1>5, <1>6

LEMMA Appends ==
    ASSUME NEW S, NEW s \in Seq(S), NEW x \in S
    PROVE  /\ Append(s, x) \in Seq(S)
           /\ \A i \in DOMAIN Append(s, x) :
                  (i \in DOMAIN s /\ Append(s, x)[i] = s[i]) \/ Append(s, x)[i] = x
           /\ In(x, Append(s, x))
           /\ \A y : In(y, s) => In(y, Append(s, x))
<1>1. /\ Len(s) \in Nat /\ DOMAIN s = 1..Len(s)
      /\ Append(s, x) \in Seq(S) /\ DOMAIN Append(s, x) = 1..(Len(s) + 1)
      /\ Append(s, x)[Len(s) + 1] = x
      /\ \A i \in 1..Len(s) : Append(s, x)[i] = s[i]
  OBVIOUS
<1>2. QED
  BY <1>1 DEF In

-------------------------------------------------------------------------------
(* The initial state *)

LEMMA InitIInv == Init => IInv
<1> SUFFICES ASSUME Init PROVE IInv
  OBVIOUS
<1>1. store \in Stores /\ \A h \in Heights : store[h] # Empty(h)
  BY Responses DEF Init, Stores
<1>2. file \in [readable : BOOLEAN, exports : Seq(Exports)] /\ DOMAIN file.exports = {}
  BY DEF Init, Unreadable
<1>3. Types
  BY <1>1, <1>2 DEF Init, Types
<1>4. QED
  BY <1>1, <1>2, <1>3 DEF Init, IInv, FileAgrees, Exporting, Cleaning, Importing, Kept

-------------------------------------------------------------------------------
(* Commands *)

LEMMA Commands ==
    /\ \A c \in ExportCommand : c # NoCommand /\ c.name = "export"
    /\ \A c \in CleanupCommand : c # NoCommand /\ c.name = "cleanup"
    /\ \A c \in ImportCommand : c # NoCommand /\ c.name = "import"
BY DEF ExportCommand, CleanupCommand, ImportCommand, NoCommand

\* The invariant of a step that ends the command, or has none, and writes nothing.
LEMMA Idle ==
    ASSUME IInv, cmd' = NoCommand, store' = store, file' = file, committed' = committed,
           careful' = careful, restored' = restored
    PROVE  IInv'
<1>1. Types'
  BY DEF IInv, Types
<1>2. FileAgrees'
  BY DEF IInv, FileAgrees
<1>3. Kept'
  BY DEF IInv, Kept, In
<1>4. QED
  BY <1>1, <1>2, <1>3 DEF IInv, Exporting, Cleaning, Importing

LEMMA Starts ==
    ASSUME NEW name, NEW todo, Start(name, todo)
    PROVE  /\ cmd' = [name |-> name, pc |-> "next", todo |-> todo, done |-> <<>>,
                      missed |-> FALSE, frame |-> store]
           /\ DOMAIN cmd'.done = {}
BY DEF Start

LEMMA ExportStep ==
    ASSUME IInv, Export
    PROVE  IInv'
<1>0. /\ Types /\ FileAgrees /\ Exporting /\ Kept
      /\ store \in Stores
      /\ file \in [readable : BOOLEAN, exports : Seq(Exports)]
  BY DEF IInv, Types
<1>1. ASSUME NEW heights \in ArgLists, StartExport(heights)
      PROVE  IInv'
  <2>1. cmd' = [name |-> "export", pc |-> "next", todo |-> heights, done |-> <<>>,
                missed |-> FALSE, frame |-> store] /\ DOMAIN cmd'.done = {}
    BY <1>1, Starts DEF StartExport
  <2>2. cmd' \in ExportCommand
    BY <1>0, <2>1, BlockEventsAssumption DEF ExportCommand
  <2>3. UNCHANGED <<store, committed, file, restored>> /\ careful' = (careful /\ restored)
    BY <1>1 DEF StartExport
  <2>4. Types'
    BY <1>0, <2>2, <2>3 DEF Types
  <2>5. FileAgrees' /\ Kept'
    BY <1>0, <2>3 DEF FileAgrees, Kept, In
  <2>6. Exporting'
    BY <2>1, <2>3 DEF Exporting
  <2>7. QED
    BY <2>1, <2>4, <2>5, <2>6 DEF IInv, Cleaning, Importing
\* Steps of an export under way that leave the file alone.
<1>2. ASSUME Running("export", "next")
      PROVE  /\ cmd \in ExportCommand /\ cmd.pc = "next"
             /\ cmd.todo \in Seq(Heights) /\ cmd.done \in Seq(Exports)
  BY <1>0, <1>2, Commands DEF Types, Running, ExportCommand
<1>3. ASSUME cmd' \in ExportCommand, UNCHANGED <<store, committed, file, careful, restored>>,
             \A i \in DOMAIN cmd'.done :
                 /\ cmd'.done[i] = AsExport(cmd'.done[i].height, store[cmd'.done[i].height])
                 /\ store[cmd'.done[i].height] # NoResponse,
             careful => restored
      PROVE  IInv'
  <2>1. Types'
    BY <1>0, <1>3 DEF Types
  <2>2. FileAgrees' /\ Kept'
    BY <1>0, <1>3 DEF FileAgrees, Kept, In
  <2>3. Exporting'
    BY <1>3 DEF Exporting
  <2>4. QED
    BY <1>3, <2>1, <2>2, <2>3, Commands DEF IInv, Cleaning, Importing
<1>4. ASSUME ExportHeight
      PROVE  IInv'
  <2>1. Running("export", "next") /\ cmd.todo # <<>>
    BY <1>4 DEF ExportHeight, Pending
  <2>2. PICK h \in Heights : h = Head(cmd.todo) /\ store[h].found
    BY <1>2, <1>4, <2>1, Tails DEF ExportHeight
  <2>3. store[h] \in {Original(h), Empty(h)}
    BY <1>0, <2>2, StoreForms
  <2>4. PICK e \in Exports : e = AsExport(h, store[h]) /\ e.height = h
    BY <2>2, <2>3, Responses
  <2>5. PICK todo \in Seq(Heights), done \in Seq(Exports) :
            todo = Tail(cmd.todo) /\ done = Append(cmd.done, e)
    BY <1>2, <2>1, <2>4, Tails, Appends
  <2>6. cmd' = [name |-> "export", pc |-> "next", todo |-> todo, done |-> done,
                missed |-> cmd.missed, frame |-> cmd.frame]
    BY <1>2, <1>4, <2>1, <2>2, <2>4, <2>5 DEF ExportHeight, Done, LoadBlockEventsExport, ExportCommand
  <2>7. cmd' \in ExportCommand /\ cmd'.done = done
    BY <1>2, <2>1, <2>6 DEF ExportCommand
  <2>8. \A i \in DOMAIN done : (i \in DOMAIN cmd.done /\ done[i] = cmd.done[i]) \/ done[i] = e
    BY <1>2, <2>1, <2>5, Appends
  <2>9. \A i \in DOMAIN cmd.done : /\ cmd.done[i] = AsExport(cmd.done[i].height, store[cmd.done[i].height])
                                   /\ store[cmd.done[i].height] # NoResponse
    BY <1>0, <1>2, <2>1, Commands DEF Exporting
  <2>10. store[h] # NoResponse
    BY <1>0, <2>2, StoreForms
  <2>11. \A i \in DOMAIN done : /\ done[i] = AsExport(done[i].height, store[done[i].height])
                                /\ store[done[i].height] # NoResponse
    BY <2>4, <2>8, <2>9, <2>10
  <2>12. careful => restored
    BY <1>0, <1>2, <2>1, Commands DEF Exporting
  <2>13. UNCHANGED <<store, committed, file, careful, restored>>
    BY <1>4 DEF ExportHeight
  <2>14. QED
    BY <1>3, <2>7, <2>11, <2>12, <2>13
<1>5. ASSUME ExportMisses
      PROVE  IInv'
  <2>1. Running("export", "next") /\ cmd.todo # <<>>
    BY <1>5 DEF ExportMisses, Pending
  <2>2. Tail(cmd.todo) \in Seq(Heights)
    BY <1>2, <2>1, Tails
  <2>3. cmd' = [name |-> "export", pc |-> "next", todo |-> Tail(cmd.todo), done |-> cmd.done,
                missed |-> TRUE, frame |-> cmd.frame]
    BY <1>2, <1>5, <2>1 DEF ExportMisses, Skip, ExportCommand
  <2>4. cmd' \in ExportCommand /\ cmd'.done = cmd.done
    BY <1>2, <2>1, <2>2, <2>3 DEF ExportCommand
  <2>5. UNCHANGED <<store, committed, file, careful, restored>>
    BY <1>5 DEF ExportMisses
  <2>6. QED
    BY <1>0, <1>2, <1>3, <2>1, <2>4, <2>5, Commands DEF Exporting
<1>6. ASSUME Truncate
      PROVE  IInv'
  <2>1. Running("export", "next")
    BY <1>6 DEF Truncate, Finished
  <2>2. cmd' = [name |-> "export", pc |-> "writing", todo |-> cmd.todo, done |-> cmd.done,
                missed |-> cmd.missed, frame |-> cmd.frame]
    BY <1>2, <1>6, <2>1 DEF Truncate, ExportCommand
  <2>3. cmd' \in ExportCommand /\ cmd'.done = cmd.done
    BY <1>2, <2>1, <2>2 DEF ExportCommand
  <2>4. UNCHANGED <<store, committed, careful, restored>> /\ file' = Unreadable
    BY <1>6 DEF Truncate
  <2>5. file' \in [readable : BOOLEAN, exports : Seq(Exports)] /\ DOMAIN file'.exports = {}
    BY <2>4 DEF Unreadable
  <2>6. /\ \A i \in DOMAIN cmd.done : /\ cmd.done[i] = AsExport(cmd.done[i].height, store[cmd.done[i].height])
                                      /\ store[cmd.done[i].height] # NoResponse
        /\ careful => restored
    BY <1>0, <1>2, <2>1, Commands DEF Exporting
  <2>7. Types'
    BY <1>0, <2>3, <2>4, <2>5 DEF Types
  <2>8. FileAgrees'
    BY <2>5 DEF FileAgrees
  <2>9. Kept'
    BY <1>0, <2>4, <2>5, <2>6 DEF Kept
  <2>10. Exporting'
    BY <2>3, <2>4, <2>6 DEF Exporting
  <2>11. QED
    BY <2>3, <2>7, <2>8, <2>9, <2>10, Commands DEF IInv, Cleaning, Importing
<1>7. ASSUME WriteFile
      PROVE  IInv'
  <2>1. cmd \in ExportCommand /\ cmd.done \in Seq(Exports)
    BY <1>0, <1>7, Commands DEF WriteFile, Running, Types, ExportCommand
  <2>2. /\ \A i \in DOMAIN cmd.done : /\ cmd.done[i] = AsExport(cmd.done[i].height, store[cmd.done[i].height])
                                      /\ store[cmd.done[i].height] # NoResponse
        /\ careful => restored
    BY <1>0, <2>1, Commands DEF Exporting
  <2>3. cmd' = NoCommand /\ UNCHANGED <<store, committed, careful, restored>>
        /\ file'.readable = TRUE /\ file'.exports = cmd.done
        /\ file' \in [readable : BOOLEAN, exports : Seq(Exports)]
    BY <1>7, <2>1 DEF WriteFile
  <2>4. Types'
    BY <1>0, <2>3 DEF Types
  <2>5. FileAgrees'
    BY <2>2, <2>3 DEF FileAgrees
  <2>6. careful => \A i \in DOMAIN cmd.done : cmd.done[i] \in Originals
    <3> SUFFICES ASSUME careful, NEW i \in DOMAIN cmd.done PROVE cmd.done[i] \in Originals
      OBVIOUS
    <3>1. PICK h \in Heights : h = cmd.done[i].height
      <4>1. cmd.done[i] \in Exports
        BY <2>1
      <4>2. QED
        BY <4>1, ExportForms
    <3>2. store[h] # Empty(h) /\ store[h] # NoResponse
      BY <1>0, <2>2, <3>1 DEF Kept
    <3>3. store[h] = Original(h)
      BY <1>0, <3>2, StoreForms
    <3>4. cmd.done[i] = AsExport(h, Original(h))
      BY <2>2, <3>1, <3>3
    <3>5. QED
      BY <3>4, Responses
  <2>7. Kept'
    BY <1>0, <2>2, <2>3, <2>6 DEF Kept
  <2>8. QED
    BY <2>3, <2>4, <2>5, <2>7 DEF IInv, Exporting, Cleaning, Importing
<1>8. QED
  BY <1>1, <1>4, <1>5, <1>6, <1>7 DEF Export

LEMMA CleanupStep ==
    ASSUME IInv, Cleanup
    PROVE  IInv'
<1>0. /\ Types /\ FileAgrees /\ Cleaning /\ Kept
      /\ store \in Stores
      /\ file \in [readable : BOOLEAN, exports : Seq(Exports)]
  BY DEF IInv, Types
<1>1. ASSUME NEW heights \in ArgLists, StartCleanup(heights)
      PROVE  IInv'
  <2>1. cmd' = [name |-> "cleanup", pc |-> "next", todo |-> heights, done |-> <<>>,
                missed |-> FALSE, frame |-> store] /\ DOMAIN cmd'.done = {}
    BY <1>1, Starts DEF StartCleanup
  <2>2. cmd' \in CleanupCommand
    BY <1>0, <2>1, BlockEventsAssumption DEF CleanupCommand
  <2>3. UNCHANGED <<store, committed, file>> /\ restored' = FALSE
        /\ careful' = (careful /\ \A i \in DOMAIN heights : heights[i] \in Listed)
    BY <1>1 DEF StartCleanup
  <2>4. Types'
    BY <1>0, <2>2, <2>3 DEF Types
  <2>5. FileAgrees' /\ Kept'
    BY <1>0, <2>3 DEF FileAgrees, Kept, In
  <2>6. Cleaning'
    BY <2>1, <2>3 DEF Cleaning, Listed
  <2>7. QED
    BY <2>1, <2>4, <2>5, <2>6 DEF IInv, Exporting, Importing
<1>2. ASSUME cmd # NoCommand, cmd.name = "cleanup"
      PROVE  /\ cmd \in CleanupCommand
             /\ cmd.todo \in Seq(Heights) /\ cmd.done \in Seq(Heights)
             /\ careful => \A i \in DOMAIN cmd.todo : cmd.todo[i] \in Listed
             /\ \A i \in DOMAIN cmd.done : store[cmd.done[i]] = Empty(cmd.done[i])
             /\ cmd.pc = "saved" => cmd.todo # <<>> /\ store[Head(cmd.todo)] = Empty(Head(cmd.todo))
             /\ \A h \in Heights :
                    \/ store[h] = cmd.frame[h]
                    \/ In(h, cmd.done)
                    \/ cmd.pc = "saved" /\ h = Head(cmd.todo)
             /\ ~restored
  BY <1>0, <1>2, Commands DEF Types, Cleaning, CleanupCommand
<1>3. ASSUME cmd' \in CleanupCommand, Types', FileAgrees', Kept', Cleaning'
      PROVE  IInv'
  BY <1>3, Commands DEF IInv, Exporting, Importing
<1>4. ASSUME UNCHANGED <<store, committed, file, careful, restored>>, cmd' \in CleanupCommand
      PROVE  Types' /\ FileAgrees' /\ Kept'
  BY <1>0, <1>4 DEF Types, FileAgrees, Kept, In
<1>5. ASSUME CleanupHeight
      PROVE  IInv'
  <2>1. cmd # NoCommand /\ cmd.name = "cleanup" /\ cmd.pc = "next" /\ cmd.todo # <<>>
    BY <1>5 DEF CleanupHeight, Pending, Running
  <2>2. PICK h \in Heights : h = Head(cmd.todo) /\ In(h, cmd.todo) /\ store[h].found
    BY <1>2, <1>5, <2>1, Tails DEF CleanupHeight
  <2>3. store[h] \in {Original(h), Empty(h)}
    BY <1>0, <2>2, StoreForms
  <2>4. Apply(store[h], Cleared(LoadBlockEventsExport(h))) = Empty(h)
    BY <2>3, ClearedEmpty, ApplyExact DEF LoadBlockEventsExport
  <2>5. store' = [store EXCEPT ![h] = Empty(h)]
    BY <1>5, <2>2, <2>4 DEF CleanupHeight
  <2>6. store' \in Stores /\ store'[h] = Empty(h) /\ \A g \in Heights \ {h} : store'[g] = store[g]
    BY <1>0, <2>5, StoreWrites
  <2>7. cmd' = [name |-> "cleanup", pc |-> "saved", todo |-> cmd.todo, done |-> cmd.done,
                missed |-> cmd.missed, frame |-> cmd.frame]
    BY <1>2, <1>5, <2>1 DEF CleanupHeight, CleanupCommand
  <2>8. cmd' \in CleanupCommand /\ cmd'.pc = "saved" /\ cmd'.todo = cmd.todo
        /\ cmd'.done = cmd.done /\ cmd'.frame = cmd.frame
    BY <1>2, <2>1, <2>7 DEF CleanupCommand
  <2>9. UNCHANGED <<committed, file, careful, restored>>
    BY <1>5 DEF CleanupHeight
  <2>10. Types'
    BY <1>0, <2>6, <2>8, <2>9 DEF Types
  <2>11. FileAgrees'
    BY <1>0, <2>9 DEF FileAgrees
  <2>12. Kept'
    <3>1. careful => In(AsExport(h, Original(h)), file.exports)
      <4> SUFFICES ASSUME careful PROVE In(AsExport(h, Original(h)), file.exports)
        OBVIOUS
      <4>1. h \in Listed
        BY <1>2, <2>1, <2>2 DEF In
      <4>2. PICK i \in DOMAIN file.exports : file.exports[i].height = h
        BY <4>1 DEF Listed
      <4>3. file.exports[i] \in Exports /\ file.exports[i] \in Originals
        BY <1>0 DEF Kept, Exports
      <4>4. file.exports[i] = AsExport(h, Original(h))
        BY <4>2, <4>3, ExportForms
      <4>5. QED
        BY <4>4 DEF In
    <3>2. ~restored
      BY <1>2, <2>1
    <3>3. QED
      BY <1>0, <2>6, <2>9, <3>1, <3>2 DEF Kept, In
  <2>13. Cleaning'
    <3>1. \A i \in DOMAIN cmd.done : store'[cmd.done[i]] = Empty(cmd.done[i])
      BY <1>2, <2>1, <2>6
    <3>2. \A g \in Heights : \/ store'[g] = cmd.frame[g]
                             \/ In(g, cmd.done)
                             \/ g = h
      BY <1>2, <2>1, <2>6
    <3>3. careful => \A i \in DOMAIN cmd.todo : cmd.todo[i] \in Listed
      BY <1>2, <2>1
    <3>4. Listed' = Listed
      BY <2>9 DEF Listed
    <3>5. ~restored
      BY <1>2, <2>1
    <3>6. QED
      BY <2>1, <2>2, <2>6, <2>8, <2>9, <3>1, <3>2, <3>3, <3>4, <3>5 DEF Cleaning, In
  <2>14. QED
    BY <1>3, <2>8, <2>10, <2>11, <2>12, <2>13
<1>6. ASSUME CleanupReports
      PROVE  IInv'
  <2>1. cmd # NoCommand /\ cmd.name = "cleanup" /\ cmd.pc = "saved" /\ cmd.todo # <<>>
    BY <1>2, <1>6 DEF CleanupReports, Running
  <2>2. PICK h \in Heights : h = Head(cmd.todo)
    BY <1>2, <2>1, Tails
  <2>3. PICK todo \in Seq(Heights), done \in Seq(Heights) :
            todo = Tail(cmd.todo) /\ done = Append(cmd.done, h)
    BY <1>2, <2>1, <2>2, Tails, Appends
  <2>4. cmd' = [name |-> "cleanup", pc |-> "next", todo |-> todo, done |-> done,
                missed |-> cmd.missed, frame |-> cmd.frame]
    BY <1>2, <1>6, <2>1, <2>2, <2>3 DEF CleanupReports, Done, CleanupCommand
  <2>5. cmd' \in CleanupCommand /\ cmd'.pc = "next" /\ cmd'.todo = todo
        /\ cmd'.done = done /\ cmd'.frame = cmd.frame
    BY <1>2, <2>1, <2>4 DEF CleanupCommand
  <2>6. UNCHANGED <<store, committed, file, careful, restored>>
    BY <1>6 DEF CleanupReports
  <2>7. Cleaning'
    <3>1. careful => \A i \in DOMAIN todo : todo[i] \in Listed
      BY <1>2, <2>1, <2>3, Tails
    <3>2. \A i \in DOMAIN done : store[done[i]] = Empty(done[i])
      BY <1>2, <2>1, <2>2, <2>3, Appends
    <3>3. \A g \in Heights : store[g] = cmd.frame[g] \/ In(g, done)
      BY <1>2, <2>1, <2>2, <2>3, Appends
    <3>4. Listed' = Listed
      BY <2>6 DEF Listed
    <3>6. ~restored
      BY <1>2, <2>1
    <3>7. QED
      BY <2>5, <2>6, <3>1, <3>2, <3>3, <3>4, <3>6 DEF Cleaning, In
  <2>8. QED
    BY <1>3, <1>4, <2>5, <2>6, <2>7
<1>7. ASSUME CleanupMisses
      PROVE  IInv'
  <2>1. cmd # NoCommand /\ cmd.name = "cleanup" /\ cmd.pc = "next" /\ cmd.todo # <<>>
    BY <1>7 DEF CleanupMisses, Pending, Running
  <2>2. PICK todo \in Seq(Heights) : todo = Tail(cmd.todo)
    BY <1>2, <2>1, Tails
  <2>3. cmd' = [name |-> "cleanup", pc |-> "next", todo |-> todo, done |-> cmd.done,
                missed |-> TRUE, frame |-> cmd.frame]
    BY <1>2, <1>7, <2>1, <2>2 DEF CleanupMisses, Skip, CleanupCommand
  <2>4. cmd' \in CleanupCommand /\ cmd'.pc = "next" /\ cmd'.todo = todo
        /\ cmd'.done = cmd.done /\ cmd'.frame = cmd.frame
    BY <1>2, <2>1, <2>3 DEF CleanupCommand
  <2>5. UNCHANGED <<store, committed, file, careful, restored>>
    BY <1>7 DEF CleanupMisses
  <2>6. Cleaning'
    <3>1. careful => \A i \in DOMAIN todo : todo[i] \in Listed
      BY <1>2, <2>1, <2>2, Tails
    <3>2. Listed' = Listed
      BY <2>5 DEF Listed
    <3>3. QED
      BY <1>2, <2>1, <2>4, <2>5, <3>1, <3>2 DEF Cleaning, In
  <2>7. QED
    BY <1>3, <1>4, <2>4, <2>5, <2>6
<1>8. ASSUME CleanupFails \/ CleanupEnds
      PROVE  IInv'
  BY <1>8, Idle DEF CleanupFails, CleanupEnds
<1>9. QED
  BY <1>1, <1>5, <1>6, <1>7, <1>8 DEF Cleanup

LEMMA ImportStep ==
    ASSUME IInv, Import
    PROVE  IInv'
<1>0. /\ Types /\ FileAgrees /\ Importing /\ Kept
      /\ store \in Stores
      /\ file \in [readable : BOOLEAN, exports : Seq(Exports)]
  BY DEF IInv, Types
<1>1. ASSUME StartImport
      PROVE  IInv'
  <2>1. cmd' = [name |-> "import", pc |-> "next", todo |-> file.exports, done |-> <<>>,
                missed |-> FALSE, frame |-> store] /\ DOMAIN cmd'.done = {}
    BY <1>1, Starts DEF StartImport
  <2>2. cmd' \in ImportCommand
    BY <1>0, <2>1 DEF ImportCommand
  <2>3. UNCHANGED <<store, committed, file, careful, restored>>
    BY <1>1 DEF StartImport
  <2>4. Types'
    BY <1>0, <2>2, <2>3 DEF Types
  <2>5. FileAgrees' /\ Kept'
    BY <1>0, <2>3 DEF FileAgrees, Kept, In
  <2>6. Importing'
    BY <1>0, <2>1, <2>3 DEF Importing, Kept, In
  <2>7. QED
    BY <2>1, <2>4, <2>5, <2>6 DEF IInv, Exporting, Cleaning
<1>2. ASSUME cmd # NoCommand, cmd.name = "import"
      PROVE  /\ cmd \in ImportCommand
             /\ cmd.todo \in Seq(Exports) /\ cmd.done \in Seq(Exports)
             /\ \A i \in DOMAIN cmd.todo : In(cmd.todo[i], file.exports)
             /\ \A i \in DOMAIN cmd.done : In(cmd.done[i], file.exports) /\ Restores(cmd.done[i])
             /\ cmd.pc = "saved" => cmd.todo # <<>> /\ Restores(Head(cmd.todo))
             /\ \A h \in Heights :
                    \/ store[h] = cmd.frame[h]
                    \/ \E i \in DOMAIN cmd.done : cmd.done[i].height = h
                    \/ cmd.pc = "saved" /\ h = Head(cmd.todo).height
             /\ careful /\ ~cmd.missed =>
                    \A h \in Heights : store[h] # Empty(h) \/ In(AsExport(h, Original(h)), cmd.todo)
  BY <1>0, <1>2, Commands DEF Types, Importing, ImportCommand
<1>3. ASSUME cmd' \in ImportCommand, Types', FileAgrees', Kept', Importing'
      PROVE  IInv'
  BY <1>3, Commands DEF IInv, Exporting, Cleaning
<1>4. ASSUME UNCHANGED <<store, committed, file, careful, restored>>, cmd' \in ImportCommand
      PROVE  Types' /\ FileAgrees' /\ Kept'
  BY <1>0, <1>4 DEF Types, FileAgrees, Kept, In
<1>5. ASSUME ImportHeight
      PROVE  IInv'
  <2>1. cmd # NoCommand /\ cmd.name = "import" /\ cmd.pc = "next" /\ cmd.todo # <<>>
    BY <1>5 DEF ImportHeight, Pending, Running
  <2>2. PICK e \in Exports : e = Head(cmd.todo) /\ In(e, cmd.todo)
    BY <1>2, <2>1, Tails
  <2>3. PICK h \in Heights : h = e.height
    BY ExportForms
  <2>4. PICK resp \in {Original(h), Empty(h)} : e = AsExport(h, resp)
    BY <2>3, ExportForms
  <2>5. store[h].found /\ store[h] \in {Original(h), Empty(h)}
    BY <1>0, <1>5, <2>2, <2>3, StoreForms DEF ImportHeight
  <2>6. Apply(store[h], e) = resp
    BY <2>4, <2>5, ApplyExact
  <2>7. store' = [store EXCEPT ![h] = resp]
    BY <1>5, <2>2, <2>3, <2>6 DEF ImportHeight
  <2>8. store' \in Stores /\ store'[h] = resp /\ \A g \in Heights \ {h} : store'[g] = store[g]
    BY <1>0, <2>4, <2>7, StoreWrites
  <2>9. cmd' = [name |-> "import", pc |-> "saved", todo |-> cmd.todo, done |-> cmd.done,
                missed |-> cmd.missed, frame |-> cmd.frame]
    BY <1>2, <1>5, <2>1 DEF ImportHeight, ImportCommand
  <2>10. cmd' \in ImportCommand /\ cmd'.pc = "saved" /\ cmd'.todo = cmd.todo
         /\ cmd'.done = cmd.done /\ cmd'.frame = cmd.frame /\ cmd'.missed = cmd.missed
    BY <1>2, <2>1, <2>9 DEF ImportCommand
  <2>11. UNCHANGED <<committed, file, careful, restored>>
    BY <1>5 DEF ImportHeight
  <2>12. In(e, file.exports)
    BY <1>2, <2>1, <2>2 DEF In
  <2>13. resp # NoResponse /\ Original(h) # Empty(h)
    BY <2>4, Responses
  <2>14. careful => resp = Original(h)
    <3> SUFFICES ASSUME careful PROVE resp = Original(h)
      OBVIOUS
    <3>1. e \in Originals
      BY <1>0, <2>12 DEF Kept, In
    <3>2. AsExport(h, Original(h)) = AsExport(h, resp)
      BY <2>3, <2>4, <3>1, ExportForms
    <3>3. resp = Apply(store[h], AsExport(h, Original(h)))
      BY <2>4, <2>6, <3>2
    <3>4. QED
      BY <2>5, <3>3, ApplyExact
  <2>15. careful => store'[h] # Empty(h)
    BY <2>8, <2>13, <2>14
  <2>16. Types'
    BY <1>0, <2>8, <2>10, <2>11 DEF Types
  <2>17. FileAgrees'
    BY <1>0, <2>11 DEF FileAgrees
  <2>18. Kept'
    BY <1>0, <2>8, <2>11, <2>15 DEF Kept, In
  <2>19. Importing'
    <3>1. Restores(e)'
      BY <2>3, <2>4, <2>8, <2>13 DEF Restores
    <3>2. \A i \in DOMAIN cmd.done : In(cmd.done[i], file.exports) /\ Restores(cmd.done[i])'
      <4> SUFFICES ASSUME NEW i \in DOMAIN cmd.done
                   PROVE  In(cmd.done[i], file.exports) /\ Restores(cmd.done[i])'
        OBVIOUS
      <4>1. PICK f \in Exports : f = cmd.done[i]
        BY <1>2, <2>1
      <4>2. In(f, file.exports) /\ Restores(f) /\ f.height \in Heights
        BY <1>2, <2>1, <4>1, ExportForms
      <4>3. f.height = h => f = e
        BY <1>0, <2>3, <2>12, <4>2 DEF FileAgrees, In
      <4>4. CASE f.height = h
        <5>1. f = e
          BY <4>3, <4>4
        <5>2. Restores(f)'
          BY <2>3, <2>4, <2>8, <2>13, <5>1 DEF Restores
        <5>3. cmd.done[i] = f /\ store'[f.height] # NoResponse /\ f = AsExport(f.height, store'[f.height])
          BY <4>1, <5>2 DEF Restores
        <5>4. QED
          BY <2>10, <4>1, <4>2, <5>3 DEF Restores
      <4>5. CASE f.height # h
        BY <2>8, <2>10, <4>1, <4>2, <4>5 DEF Restores
      <4>6. QED
        BY <4>4, <4>5
    <3>3. \A g \in Heights : \/ store'[g] = cmd.frame[g]
                             \/ \E i \in DOMAIN cmd.done : cmd.done[i].height = g
                             \/ g = h
      BY <1>2, <2>1, <2>8
    <3>4. careful /\ ~cmd.missed =>
            \A g \in Heights : store'[g] # Empty(g) \/ In(AsExport(g, Original(g)), cmd.todo)
      BY <1>2, <2>1, <2>8, <2>15
    <3>5. \A i \in DOMAIN cmd.todo : In(cmd.todo[i], file.exports)
      BY <1>2, <2>1
    <3>6. Restores(Head(cmd.todo))'
      BY <2>2, <2>3, <2>4, <2>8, <2>10, <2>13 DEF Restores
    <3>7. QED
      BY <2>1, <2>2, <2>3, <2>10, <2>11, <3>2, <3>3, <3>4, <3>5, <3>6 DEF Importing, In, Restores
  <2>20. QED
    BY <1>3, <2>10, <2>16, <2>17, <2>18, <2>19
<1>6. ASSUME ImportReports
      PROVE  IInv'
  <2>1. cmd # NoCommand /\ cmd.name = "import" /\ cmd.pc = "saved" /\ cmd.todo # <<>>
    BY <1>2, <1>6 DEF ImportReports, Running
  <2>2. PICK e \in Exports : e = Head(cmd.todo) /\ In(e, cmd.todo) /\ Restores(e)
    BY <1>2, <2>1, Tails
  <2>3. PICK todo \in Seq(Exports), done \in Seq(Exports) :
            todo = Tail(cmd.todo) /\ done = Append(cmd.done, e)
    BY <1>2, <2>1, <2>2, Tails, Appends
  <2>4. cmd' = [name |-> "import", pc |-> "next", todo |-> todo, done |-> done,
                missed |-> cmd.missed, frame |-> cmd.frame]
    BY <1>2, <1>6, <2>1, <2>2, <2>3 DEF ImportReports, Done, ImportCommand
  <2>5. cmd' \in ImportCommand /\ cmd'.pc = "next" /\ cmd'.todo = todo
        /\ cmd'.done = done /\ cmd'.frame = cmd.frame /\ cmd'.missed = cmd.missed
    BY <1>2, <2>1, <2>4 DEF ImportCommand
  <2>6. UNCHANGED <<store, committed, file, careful, restored>>
    BY <1>6 DEF ImportReports
  <2>7. Importing'
    <3>1. \A i \in DOMAIN todo : In(todo[i], file.exports)
      BY <1>2, <2>1, <2>3, Tails
    <3>2. \A i \in DOMAIN done : In(done[i], file.exports) /\ Restores(done[i])
      <4>1. In(e, file.exports)
        BY <1>2, <2>1, <2>2 DEF In
      <4>2. \A i \in DOMAIN done : (i \in DOMAIN cmd.done /\ done[i] = cmd.done[i]) \/ done[i] = e
        BY <1>2, <2>1, <2>3, Appends
      <4>3. QED
        BY <1>2, <2>1, <2>2, <4>1, <4>2
    <3>3. \A g \in Heights : store[g] = cmd.frame[g] \/ \E i \in DOMAIN done : done[i].height = g
      <4>1. \A y : In(y, cmd.done) => In(y, done)
        BY <1>2, <2>1, <2>3, Appends
      <4>2. In(e, done)
        BY <1>2, <2>1, <2>3, Appends
      <4>3. \A i \in DOMAIN cmd.done : \E j \in DOMAIN done : done[j] = cmd.done[i]
        BY <4>1 DEF In
      <4>4. PICK j \in DOMAIN done : done[j] = e
        BY <4>2 DEF In
      <4>5. \A g \in Heights : \/ store[g] = cmd.frame[g]
                               \/ \E i \in DOMAIN cmd.done : cmd.done[i].height = g
                               \/ g = e.height
        BY <1>2, <2>1, <2>2
      <4>6. ASSUME NEW g \in Heights, store[g] # cmd.frame[g]
            PROVE  \E i \in DOMAIN done : done[i].height = g
        <5>1. CASE g = e.height
          <6>1. done[j].height = g
            BY <4>4, <5>1
          <6>2. QED
            BY <6>1
        <5>2. CASE \E i \in DOMAIN cmd.done : cmd.done[i].height = g
          <6>1. PICK i \in DOMAIN cmd.done : cmd.done[i].height = g
            BY <5>2
          <6>2. PICK k \in DOMAIN done : done[k] = cmd.done[i]
            BY <4>3
          <6>3. done[k].height = g
            BY <6>1, <6>2
          <6>4. QED
            BY <6>3
        <5>3. QED
          BY <4>5, <4>6, <5>1, <5>2
      <4>7. QED
        BY <4>6
    <3>4. careful /\ ~cmd.missed =>
            \A g \in Heights : store[g] # Empty(g) \/ In(AsExport(g, Original(g)), todo)
      <4> SUFFICES ASSUME careful, ~cmd.missed, NEW g \in Heights,
                          ~In(AsExport(g, Original(g)), todo)
                   PROVE  store[g] # Empty(g)
        OBVIOUS
      <4>1. CASE In(AsExport(g, Original(g)), cmd.todo)
        <5>1. e = AsExport(g, Original(g))
          BY <1>2, <2>1, <2>2, <2>3, <4>1, Tails
        <5>2. e.height = g
          BY <5>1, Responses
        <5>3. store[g] # NoResponse /\ AsExport(g, Original(g)) = AsExport(g, store[g])
          BY <2>2, <5>1, <5>2 DEF Restores
        <5>4. store[g] \in {Original(g), Empty(g)}
          BY <1>0, <5>3, StoreForms
        <5>5. Apply(store[g], AsExport(g, Original(g))) = Original(g)
              /\ Apply(store[g], AsExport(g, store[g])) = store[g]
          BY <5>4, ApplyExact
        <5>6. store[g] = Original(g)
          BY <5>3, <5>5
        <5>7. QED
          BY <5>6, Responses
      <4>2. CASE ~In(AsExport(g, Original(g)), cmd.todo)
        BY <1>2, <2>1, <4>2
      <4>3. QED
        BY <4>1, <4>2
    <3>5. QED
      BY <2>5, <2>6, <3>1, <3>2, <3>3, <3>4 DEF Importing, In, Restores
  <2>8. QED
    BY <1>3, <1>4, <2>5, <2>6, <2>7
<1>7. ASSUME ImportMisses
      PROVE  IInv'
  <2>1. cmd # NoCommand /\ cmd.name = "import" /\ cmd.pc = "next" /\ cmd.todo # <<>>
    BY <1>7 DEF ImportMisses, Pending, Running
  <2>2. PICK todo \in Seq(Exports) : todo = Tail(cmd.todo)
    BY <1>2, <2>1, Tails
  <2>3. cmd' = [name |-> "import", pc |-> "next", todo |-> todo, done |-> cmd.done,
                missed |-> TRUE, frame |-> cmd.frame]
    BY <1>2, <1>7, <2>1, <2>2 DEF ImportMisses, Skip, ImportCommand
  <2>4. cmd' \in ImportCommand /\ cmd'.pc = "next" /\ cmd'.todo = todo
        /\ cmd'.done = cmd.done /\ cmd'.frame = cmd.frame /\ cmd'.missed
    BY <1>2, <2>1, <2>3 DEF ImportCommand
  <2>5. UNCHANGED <<store, committed, file, careful, restored>>
    BY <1>7 DEF ImportMisses
  <2>6. Importing'
    <3>1. \A i \in DOMAIN todo : In(todo[i], file.exports)
      BY <1>2, <2>1, <2>2, Tails
    <3>2. QED
      BY <1>2, <2>1, <2>4, <2>5, <3>1 DEF Importing, In, Restores
  <2>7. QED
    BY <1>3, <1>4, <2>4, <2>5, <2>6
<1>8. ASSUME ImportEnds
      PROVE  IInv'
  <2>1. cmd # NoCommand /\ cmd.name = "import" /\ cmd.todo = <<>>
    BY <1>8 DEF ImportEnds, Finished, Running
  <2>2. cmd' = NoCommand /\ restored' = (restored \/ ~cmd.missed)
        /\ UNCHANGED <<store, committed, file, careful>>
    BY <1>8 DEF ImportEnds
  <2>3. careful /\ ~cmd.missed => \A h \in Heights : store[h] # Empty(h)
    <3>1. DOMAIN cmd.todo = {}
      BY <2>1
    <3>2. \A x : ~In(x, cmd.todo)
      BY <3>1 DEF In
    <3>3. careful /\ ~cmd.missed =>
            \A h \in Heights : store[h] # Empty(h) \/ In(AsExport(h, Original(h)), cmd.todo)
      BY <1>2, <2>1
    <3>4. QED
      BY <3>2, <3>3
  <2>4. Types'
    BY <1>0, <1>2, <2>1, <2>2 DEF Types, ImportCommand
  <2>5. FileAgrees'
    BY <1>0, <2>2 DEF FileAgrees
  <2>6. Kept'
    BY <1>0, <2>2, <2>3 DEF Kept, In
  <2>7. QED
    BY <2>2, <2>4, <2>5, <2>6 DEF IInv, Exporting, Cleaning, Importing
<1>9. QED
  BY <1>1, <1>5, <1>6, <1>7, <1>8 DEF Import

LEMMA NodeStep ==
    ASSUME IInv, NEW h \in Heights, Commit(h) \/ Prune(h)
    PROVE  IInv'
<1>0. Types /\ FileAgrees /\ Kept /\ store \in Stores
  BY DEF IInv, Types
<1>1. PICK resp \in {NoResponse, Original(h)} : store' = [store EXCEPT ![h] = resp]
  BY DEF Commit, Prune
<1>2. store' \in Stores /\ store'[h] = resp /\ \A g \in Heights \ {h} : store'[g] = store[g]
  BY <1>0, <1>1, StoreWrites
<1>3. store'[h] # Empty(h)
  BY <1>2, Responses
<1>4. cmd' = NoCommand /\ UNCHANGED <<file, careful, restored>> /\ committed' \subseteq Heights
  BY <1>0 DEF Commit, Prune, Types
<1>5. Types'
  BY <1>0, <1>2, <1>4 DEF Types
<1>6. FileAgrees'
  BY <1>0, <1>4 DEF FileAgrees
<1>7. Kept'
  BY <1>0, <1>2, <1>3, <1>4 DEF Kept, In
<1>8. QED
  BY <1>4, <1>5, <1>6, <1>7 DEF IInv, Exporting, Cleaning, Importing

LEMMA NextIInv == IInv /\ [Next]_vars => IInv'
<1> SUFFICES ASSUME IInv, [Next]_vars PROVE IInv'
  OBVIOUS
<1>1. CASE UNCHANGED vars
  BY <1>1 DEF vars, IInv, Types, FileAgrees, Exporting, Cleaning, Importing, Kept, In, Restores, Listed
<1>2. CASE Export
  BY <1>2, ExportStep
<1>3. CASE Cleanup
  BY <1>3, CleanupStep
<1>4. CASE Import
  BY <1>4, ImportStep
<1>5. CASE Killed
  BY <1>5, Idle DEF Killed
<1>6. CASE \E h \in Heights : Commit(h) \/ Prune(h)
  BY <1>6, NodeStep
<1>7. QED
  BY <1>1, <1>2, <1>3, <1>4, <1>5, <1>6 DEF Next

-------------------------------------------------------------------------------
(* Theorems *)

\* The invariant holds in every state: the basis of the theorems below.
THEOREM BlockEventsInvariant == Spec => []IInv
BY InitIInv, NextIInv, PTL DEF Spec

\* The events of a block are all there or all gone, in the store and in the file,
\* wherever a command was cut off.
THEOREM BlockEventsWhole == Spec => []Whole
<1>1. IInv => Whole
  <2> SUFFICES ASSUME IInv PROVE Whole
    OBVIOUS
  <2>1. store \in Stores /\ file.exports \in Seq(Exports)
    BY DEF IInv, Types
  <2>2. \A i \in DOMAIN file.exports : file.exports[i] \in Exports
    BY <2>1
  <2>3. \A h \in Heights : store[h] \in {NoResponse, Original(h), Empty(h)}
    BY <2>1 DEF Stores
  <2>4. QED
    BY <2>2, <2>3 DEF Whole, Exports, Originals
<1>2. QED
  BY <1>1, BlockEventsInvariant, PTL

\* Nobody's events are ever another's, in the store or in the file.
THEOREM BlockEventsTypeCorrect == Spec => []TypeOK
<1>1. \A h \in Heights : Original(h) \in Response(h) /\ Empty(h) \in Response(h)
  BY DEF Original, Empty, Response
<1>2. IInv => TypeOK
  <2> SUFFICES ASSUME IInv PROVE TypeOK
    OBVIOUS
  <2>1. Types /\ store \in Stores /\ file.exports \in Seq(Exports)
    BY DEF IInv, Types
  <2>2. DOMAIN store = Heights /\ \A h \in Heights : store[h] \in Response(h) \cup {NoResponse}
    BY <1>1, <2>1 DEF Stores
  <2>3. \A i \in DOMAIN file.exports : file.exports[i] \in Exports
    BY <2>1
  <2>4. \A i \in DOMAIN file.exports : \E h \in Heights : \E resp \in Response(h) :
            file.exports[i] = AsExport(h, resp)
    BY <1>1, <2>3 DEF Exports, Originals
  <2>5. cmd # NoCommand =>
            /\ cmd.name \in {"export", "cleanup", "import"}
            /\ cmd.pc \in {"next", "saved", "writing"}
            /\ cmd.missed \in BOOLEAN
    BY <2>1 DEF Types, ExportCommand, CleanupCommand, ImportCommand
  <2>6. QED
    BY <2>1, <2>2, <2>4, <2>5 DEF TypeOK, Types
<1>3. QED
  BY <1>2, BlockEventsInvariant, PTL

\* An operator who keeps to the rules can get back the events of every block that was
\* not pruned.
THEOREM BlockEventsRecoverable == Spec => []Recoverable
<1>1. IInv => Recoverable
  <2> SUFFICES ASSUME IInv, careful, NEW h \in Heights, store[h] \notin {NoResponse, Original(h)}
               PROVE  \E i \in DOMAIN file.exports : file.exports[i] = AsExport(h, Original(h))
    BY DEF Recoverable
  <2>1. store[h] = Empty(h)
    BY StoreForms DEF IInv, Types
  <2>2. QED
    BY <2>1 DEF IInv, Kept, In
<1>2. QED
  BY <1>1, BlockEventsInvariant, PTL

\* A cleanup or an import that ends, however it ends, has done what it reported and
\* nothing else - but for one height it was cut off at.
THEOREM BlockEventsReportsExact == Spec => ReportsExact
<1>1. ASSUME IInv, [Next]_vars, cmd # NoCommand, cmd.name # "export", cmd' = NoCommand
      PROVE  store' = store
  <2>1. ~Export
    BY <1>1, Commands DEF Export, StartExport, ExportHeight, ExportMisses, Truncate, WriteFile,
                          Running, Pending, Finished
  <2>2. CASE Cleanup
    <3>1. cmd \in CleanupCommand
      BY <1>1, <2>2, Commands DEF IInv, Types, Cleanup, StartCleanup, CleanupHeight, CleanupReports,
                          CleanupMisses, CleanupFails, CleanupEnds, Running, Pending, Finished
    <3>2. ~CleanupHeight
      <4>1. ASSUME CleanupHeight
            PROVE  cmd' \in [name : {"cleanup"}, pc : {"next", "saved"}, todo : Seq(Heights),
                             done : Seq(Heights), missed : BOOLEAN, frame : Stores]
        BY <3>1, <4>1 DEF CleanupHeight, CleanupCommand
      <4>2. QED
        BY <1>1, <4>1, Commands DEF CleanupCommand
    <3>3. QED
      BY <1>1, <2>2, <3>2 DEF Cleanup, StartCleanup, CleanupReports, CleanupMisses, CleanupFails, CleanupEnds
  <2>3. CASE Import
    <3>1. cmd \in ImportCommand
      BY <1>1, <2>3, Commands DEF IInv, Types, Import, StartImport, ImportHeight, ImportReports,
                          ImportMisses, ImportEnds, Running, Pending, Finished
    <3>2. ~ImportHeight
      <4>1. ASSUME ImportHeight
            PROVE  cmd' \in [name : {"import"}, pc : {"next", "saved"}, todo : Seq(Exports),
                             done : Seq(Exports), missed : BOOLEAN, frame : Stores]
        BY <3>1, <4>1 DEF ImportHeight, ImportCommand
      <4>2. QED
        BY <1>1, <4>1, Commands DEF ImportCommand
    <3>3. QED
      BY <1>1, <2>3, <3>2 DEF Import, StartImport, ImportReports, ImportMisses, ImportEnds
  <2>4. QED
    BY <1>1, <2>1, <2>2, <2>3 DEF Next, Killed, Commit, Prune, vars
<1>2. IInv /\ [Next]_vars => [CommandEnd]_vars
  <2> SUFFICES ASSUME IInv, [Next]_vars, cmd # NoCommand, cmd.name # "export", cmd' = NoCommand
               PROVE  CommandEnd
    BY DEF CommandEnd
  <2>1. store' = store /\ Types /\ Cleaning /\ Importing
    BY <1>1 DEF IInv
  <2>2. CASE cmd.name = "cleanup"
    BY <2>1, <2>2 DEF CommandEnd, Target, Cleaning, In
  <2>3. CASE cmd.name # "cleanup"
    <3>1. cmd.name = "import"
      BY <2>1, <2>3 DEF Types, ExportCommand, CleanupCommand, ImportCommand
    <3>2. \A i \in DOMAIN cmd.done : AsExport(cmd.done[i].height, store[cmd.done[i].height]) = cmd.done[i]
      BY <2>1, <3>1 DEF Importing, Restores
    <3>3. \A h \in Heights :
              \/ store[h] = cmd.frame[h]
              \/ \E i \in DOMAIN cmd.done : cmd.done[i].height = h
              \/ cmd.pc = "saved" /\ h = Head(cmd.todo).height
      BY <2>1, <3>1 DEF Importing
    <3>4. QED
      BY <2>1, <2>3, <3>2, <3>3 DEF CommandEnd, Target
  <2>4. QED
    BY <2>2, <2>3
<1>3. QED
  BY <1>2, BlockEventsInvariant, PTL DEF Spec, ReportsExact
================================================================================
