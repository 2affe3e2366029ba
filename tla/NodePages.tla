------------------------------ MODULE NodePages ------------------------------
(***************************************************************************)
(* Persistence of nodes in cypherlite-storage (lib.rs): every create,      *)
(* update and delete changes the in-memory NodeStore and writes the page   *)
(* that holds the record through the log; open() rebuilds the NodeStore    *)
(* from the chain of node data pages.                                      *)
(*                                                                         *)
(* The log is module PageStore: one commit replaces one page, whole, and   *)
(* survives a kill (WalStore implements it).  `main` and `log` are kept    *)
(* apart because read_data_page looks at the main file only.  The header   *)
(* page and the free-space map are written to the main file directly.      *)
(* Pages are never freed by the engine, so the page allocated is the       *)
(* lowest unused one and it always extends page_count (module FreeSpace).  *)
(* I/O errors are not modelled here; running out of pages is.              *)
(*                                                                         *)
(* Bounds: MaxPage pages, MaxId node ids, PageUnits units of room on a     *)
(* page (a record takes Units[value]).                                     *)
(***************************************************************************)
EXTENDS Integers, Sequences, FiniteSets

CONSTANTS Value,        \* labels and properties of a node
          Gone,         \* not a node
          NoFrame,      \* no frame of this page in the log
          Units,        \* room taken by a record
          PageUnits,    \* room on a data page
          MaxPage, MaxId,
          Kills         \* whether the process may be killed

ASSUME UnitsAssumption == Units \in [Value -> Nat \ {0}] /\ PageUnits \in Nat \ {0}
ASSUME BoundsAssumption == MaxPage \in Nat \ {0} /\ MaxId \in Nat
ASSUME KillsAssumption == Kills \in BOOLEAN

DataPage == 2..MaxPage                  \* FIRST_DATA_PAGE = 2; 0 stands for none
Id == 1..MaxId
Record == [id : Id, value : Value, deleted : BOOLEAN]
Image == [formatted : BOOLEAN, records : Seq(Record), next : {0} \cup DataPage]
Header == [root : {0} \cup DataPage, nextId : 1..(MaxId + 1)]

ASSUME MarksAssumption == Gone \notin Value /\ NoFrame \notin Image

\* A page allocated and never written: free_offset is 0, inside the header.
ZeroPage == [formatted |-> FALSE, records |-> <<>>, next |-> 0]

\* DataPageHeader::new
EmptyPage(next) == [formatted |-> TRUE, records |-> <<>>, next |-> next]

VARIABLES main,         \* node data pages in the main file
          log,          \* their latest committed images in the log
          header,       \* page 0 on disk: node_data_root_page, next_node_id
          allocated,    \* the free-space map on disk
          pc,           \* next step of persist_node or Drop
          job,          \* the record persist_node is writing and its new page
          memHeader,    \* PageManager.header
          nodes,        \* NodeStore
          pageOf,       \* node_page_map, 0 = no entry
          cached,       \* current_node_data_page, page 0 = None
          harm,         \* history: ways in which a record may have been lost
          killed        \* history: the process has been killed

disk == <<main, log, header, allocated>>
memory == <<pc, job, memHeader, nodes, pageOf, cached>>
vars == <<disk, memory, harm, killed>>

Harms == {"stale", "overflow", "oversize", "unformatted", "no_space", "reused_id"}
NoJob == [record |-> Gone, page |-> 0]
NoCache == [page |-> 0, image |-> ZeroPage]
NoNodes == [id \in Id |-> Gone]

TypeOK == /\ main \in [DataPage -> Image] /\ log \in [DataPage -> Image \cup {NoFrame}]
          /\ header \in Header /\ memHeader \in Header /\ allocated \subseteq DataPage
          /\ pc \in {"closed", "ready", "header", "chain", "page", "root", "closing"}
          /\ job \in {NoJob} \cup [record : Record, page : DataPage]
          /\ nodes \in [Id -> Value \cup {Gone}] /\ pageOf \in [Id -> {0} \cup DataPage]
          /\ cached \in {NoCache} \cup [page : DataPage, image : Image]
          /\ harm \subseteq Harms /\ killed \in BOOLEAN

-----------------------------------------------------------------------------
(* Pages.                                                                  *)

Used(image) == LET used[k \in 0..Len(image.records)] ==
                     IF k = 0 THEN 0 ELSE used[k - 1] + Units[image.records[k].value]
               IN  used[Len(image.records)]
Fits(image, r) == Used(image) + Units[r.value] <= PageUnits
PackRecord(image, r) == [image EXCEPT !.records = Append(@, r)]

\* The rebuild loop ignores pack_record_into_page's answer, and so does persist_node in a
\* build without debug assertions.
PackIfFits(image, r) == IF Fits(image, r) THEN PackRecord(image, r) ELSE image

\* Records packed into a page that was never formatted lie under the header that is
\* written after them: none of them can be read back.
ReadRecords(image) == IF image.formatted THEN image.records ELSE <<>>

Latest(p) == IF log[p] = NoFrame THEN main[p] ELSE log[p]
Images == [p \in DataPage |-> IF log[p] = NoFrame THEN main[p] ELSE log[p]]

\* The chain of data pages from `root`, followed by zeros.
NextPage(images) == [p \in {0} \cup DataPage |-> IF p = 0 THEN 0 ELSE images[p].next]
Chain(images, root) ==
    LET chain[k \in 1..MaxPage] == IF k = 1 THEN root ELSE NextPage(images)[chain[k - 1]]
    IN  chain

ChainEnd(chain) == CHOOSE p \in {0} \cup DataPage :
                     \/ p = 0 /\ chain[1] = 0
                     \/ p # 0 /\ \E k \in 1..MaxPage : chain[k] = p /\ (k = MaxPage \/ chain[k + 1] = 0)

\* The live records along a chain: place in the chain, place on the page, record.
LiveRecords(images, chain) ==
    UNION {LET records == ReadRecords(images[chain[k]])
           IN  {<<k, j, records[j]>> : j \in {n \in 1..Len(records) : ~ records[n].deleted}}
             : k \in {n \in 1..MaxPage : chain[n] # 0}}

\* load_nodes_from_pages: of the live records of an id the last one along the chain counts.
After(x, y) == y[1] < x[1] \/ (y[1] = x[1] /\ y[2] <= x[2])
LastOf(live, id) == {x \in live : x[3].id = id /\ \A y \in live : y[3].id = id => After(x, y)}
NodesIn(live) == [id \in Id |-> IF LastOf(live, id) = {} THEN Gone
                                ELSE (CHOOSE x \in LastOf(live, id) : TRUE)[3].value]
PagesIn(live, chain) == [id \in Id |-> IF LastOf(live, id) = {} THEN 0
                                       ELSE chain[(CHOOSE x \in LastOf(live, id) : TRUE)[1]]]

\* The nodes a restart would find.
Restart == NodesIn(LiveRecords(Images, Chain(Images, header.root)))

-----------------------------------------------------------------------------
(* persist_node.                                                           *)

Init == /\ main = [p \in DataPage |-> ZeroPage] /\ log = [p \in DataPage |-> NoFrame]
        /\ header = [root |-> 0, nextId |-> 1] /\ allocated = {}
        /\ pc = "ready" /\ job = NoJob /\ memHeader = header
        /\ nodes = NoNodes /\ pageOf = [id \in Id |-> 0] /\ cached = NoCache
        /\ harm = {} /\ killed = FALSE

Room(r) == cached.page # 0 /\ Fits(cached.image, r)
FreePages == DataPage \ allocated
\* Mutant: pages are numbered from FIRST_DATA_PAGE + 1.
AfterLowestFree == 3 + Cardinality(allocated)
LowestFree == CHOOSE p \in FreePages : \A q \in FreePages : p <= q

\* Pack into the current page and commit it, ...
PersistHere(r) ==
    /\ Room(r)
    /\ cached' = [cached EXCEPT !.image = PackRecord(@, r)]
    /\ log' = [log EXCEPT ![cached.page] = cached'.image]
    /\ pageOf' = [pageOf EXCEPT ![r.id] = cached.page]
    /\ UNCHANGED <<main, header, allocated, pc, job>>

\* ... or take a new page: its bit in the free-space map goes to disk first; ...
PersistNewPage(r) ==
    /\ ~ Room(r) /\ FreePages # {}
    /\ allocated' = allocated \cup {LowestFree}
    /\ job' = [record |-> r, page |-> LowestFree]
    /\ pc' = "header"
    /\ UNCHANGED <<main, log, header, cached, pageOf>>

\* ... or fail, and the caller drops the error.
PersistFails(r) ==
    /\ ~ Room(r) /\ FreePages = {}
    /\ UNCHANGED <<disk, pc, job, cached, pageOf>>

Persist(r) == PersistHere(r) \/ PersistNewPage(r) \/ PersistFails(r)

PersistHarm(r) == IF Room(r) THEN IF cached.image.formatted THEN {} ELSE {"unformatted"}
                  ELSE IF FreePages = {} THEN {"no_space"} ELSE {}

\* complete_allocation: page_count grows, and flush_header writes the whole header.
FlushCount == /\ pc = "header"
              /\ header' = memHeader
              /\ pc' = IF cached.page = 0 THEN "page" ELSE "chain"
              /\ UNCHANGED <<main, log, allocated, job, memHeader, nodes, pageOf, cached, harm, killed>>

\* The full page is committed with a pointer to the new one, ...
ChainPage == /\ pc = "chain"
             /\ cached' = [cached EXCEPT !.image.next = job.page]
             /\ log' = [log EXCEPT ![cached.page] = cached'.image]
             /\ pc' = "page"
             /\ UNCHANGED <<main, header, allocated, job, memHeader, nodes, pageOf, harm, killed>>

\* ... then the new page with the record, ...
WritePage == /\ pc = "page"
             /\ LET image == PackIfFits(EmptyPage(0), job.record)
                IN  /\ log' = [log EXCEPT ![job.page] = image]
                    /\ cached' = [page |-> job.page, image |-> image]
                    /\ harm' = harm \cup IF image.records = <<>> THEN {"oversize"} ELSE {}
             /\ pageOf' = [pageOf EXCEPT ![job.record.id] = job.page]
             /\ IF memHeader.root = 0
                THEN /\ memHeader' = [memHeader EXCEPT !.root = job.page]
                     /\ pc' = "root" /\ UNCHANGED job
                ELSE pc' = "ready" /\ job' = NoJob /\ UNCHANGED memHeader
             /\ UNCHANGED <<main, header, allocated, nodes, killed>>

\* Mutant: the root pointer is not flushed.
NoFlushRoot == /\ pc = "root"
               /\ pc' = "ready" /\ job' = NoJob
               /\ UNCHANGED <<main, header, log, allocated, memHeader, nodes, pageOf, cached, harm, killed>>

\* ... and for the first page of all, the root pointer.
FlushRoot == /\ pc = "root"
             /\ header' = memHeader
             /\ pc' = "ready" /\ job' = NoJob
             /\ UNCHANGED <<main, log, allocated, memHeader, nodes, pageOf, cached, harm, killed>>

-----------------------------------------------------------------------------
(* create_node, update_node, delete_node.                                  *)

\* Mutant: next_node_id is not put in the header.
CreateKeepingNextId(v) ==
    LET id == CHOOSE n \in 1..(MaxId + 1) : n = MaxId + 1 \/ nodes[n] = Gone
        r == [id |-> id, value |-> v, deleted |-> FALSE]
    IN  /\ pc = "ready" /\ id <= MaxId
        /\ nodes' = [nodes EXCEPT ![id] = v]
        /\ Persist(r)
        /\ harm' = harm \cup PersistHarm(r)
        /\ UNCHANGED <<memHeader, killed>>

Create(v) ==
    LET id == memHeader.nextId
        r == [id |-> id, value |-> v, deleted |-> FALSE]
    IN  /\ pc = "ready" /\ id <= MaxId
        /\ nodes' = [nodes EXCEPT ![id] = v]
        /\ memHeader' = [memHeader EXCEPT !.nextId = id + 1]
        /\ Persist(r)
        /\ harm' = harm \cup PersistHarm(r) \cup IF nodes[id] = Gone THEN {} ELSE {"reused_id"}
        /\ UNCHANGED killed

\* read_data_page: the current page from memory, any other from the main file.
ReadDataPage(p) == IF cached.page = p THEN cached.image ELSE main[p]

\* rewrite_node_on_page: the page again, with r in place of the records of its id.
Replaced(old, r) == [k \in 1..Len(ReadRecords(old)) |->
                       IF ReadRecords(old)[k].id = r.id THEN r ELSE ReadRecords(old)[k]]
Rebuilt(old, r) ==
    LET built[k \in 0..Len(ReadRecords(old))] ==
          IF k = 0 THEN EmptyPage(old.next) ELSE PackIfFits(built[k - 1], Replaced(old, r)[k])
    IN  built[Len(ReadRecords(old))]
Rewritten(r) == Rebuilt(ReadDataPage(pageOf[r.id]), r)

\* Mutant: the page is written and the current page in memory is not.
RewriteOnDiskOnly(r) ==
    LET p == pageOf[r.id]
    IN  /\ p # 0
        /\ log' = [log EXCEPT ![p] = Rewritten(r)]
        /\ UNCHANGED <<main, header, allocated, pc, job, cached, pageOf>>

RewriteOnPage(r) ==
    LET p == pageOf[r.id]
    IN  /\ p # 0
        /\ log' = [log EXCEPT ![p] = Rewritten(r)]
        /\ cached' = IF cached.page = p THEN [cached EXCEPT !.image = Rewritten(r)] ELSE cached
        /\ UNCHANGED <<main, header, allocated, pc, job, pageOf>>

\* A node that was never persisted is persisted now.
Rewrite(r) == RewriteOnPage(r) \/ (pageOf[r.id] = 0 /\ Persist(r))

RewriteHarm(r) ==
    IF pageOf[r.id] = 0 THEN PersistHarm(r)
    ELSE LET old == ReadDataPage(pageOf[r.id])
         IN  (IF old = Latest(pageOf[r.id]) THEN {} ELSE {"stale"})
             \cup IF Len(Rewritten(r).records) = Len(ReadRecords(old)) THEN {} ELSE {"overflow"}

Update(id, v) ==
    LET r == [id |-> id, value |-> v, deleted |-> FALSE]
    IN  /\ pc = "ready" /\ nodes[id] # Gone
        /\ nodes' = [nodes EXCEPT ![id] = v]
        /\ Rewrite(r) /\ harm' = harm \cup RewriteHarm(r)
        /\ UNCHANGED <<memHeader, killed>>

\* delete_node writes a tombstone over the record.
Delete(id) ==
    LET r == [id |-> id, value |-> nodes[id], deleted |-> TRUE]
    IN  /\ pc = "ready" /\ nodes[id] # Gone
        /\ nodes' = [nodes EXCEPT ![id] = Gone]
        /\ Rewrite(r) /\ harm' = harm \cup RewriteHarm(r)
        /\ UNCHANGED <<memHeader, killed>>

-----------------------------------------------------------------------------
(* Checkpoint, closing, death and opening.                                 *)

\* Mutant: the log is dropped without being copied.
DropLog == main' = main /\ log' = [p \in DataPage |-> NoFrame]

Merge == main' = Images /\ log' = [p \in DataPage |-> NoFrame]

Checkpoint == /\ pc = "ready" /\ \E p \in DataPage : log[p] # NoFrame
              /\ Merge
              /\ UNCHANGED <<header, allocated, memory, harm, killed>>

\* Drop: save_catalog takes a page of its own every time, ...
CloseCatalog == /\ pc = "ready"
                /\ IF FreePages = {} THEN UNCHANGED <<allocated, header>>
                   ELSE allocated' = allocated \cup {LowestFree} /\ header' = memHeader
                /\ pc' = "closing"
                /\ UNCHANGED <<main, log, job, memHeader, nodes, pageOf, cached, harm, killed>>

Forgotten == /\ pc' = "closed" /\ job' = NoJob /\ cached' = NoCache
             /\ nodes' = NoNodes /\ pageOf' = [id \in Id |-> 0]

\* ... then come flush_header and the checkpoint.
CloseFlush == /\ pc = "closing"
              /\ header' = memHeader /\ Merge
              /\ Forgotten
              /\ UNCHANGED <<allocated, memHeader, harm, killed>>

Kill == /\ Kills /\ pc # "closed"
        /\ Forgotten /\ killed' = TRUE
        /\ UNCHANGED <<disk, memHeader, harm>>

\* Recovery, then load_nodes_from_pages.  next_node_id comes from the header alone.
Open == LET chain == Chain(Images, header.root)
            live == LiveRecords(Images, chain)
        IN  /\ pc = "closed" /\ pc' = "ready"
            /\ Merge
            /\ memHeader' = header
            /\ nodes' = NodesIn(live) /\ pageOf' = PagesIn(live, chain)
            /\ cached' = IF ChainEnd(chain) = 0 THEN NoCache
                         ELSE [page |-> ChainEnd(chain), image |-> Latest(ChainEnd(chain))]
            /\ UNCHANGED <<header, allocated, job, harm, killed>>

Next == \/ \E v \in Value : Create(v)
        \/ \E id \in Id, v \in Value : Update(id, v)
        \/ \E id \in Id : Delete(id)
        \/ FlushCount \/ ChainPage \/ WritePage \/ FlushRoot
        \/ Checkpoint \/ CloseCatalog \/ CloseFlush \/ Kill \/ Open

Spec == Init /\ [][Next]_vars

-----------------------------------------------------------------------------
(* What must hold.                                                         *)

\* Up to the losses recorded in `harm`, an operation that returned is what a restart
\* finds (R-PERSIST-001, -003, -004), and a node whose creation is under way is found
\* whole or not at all.
RestartMatches ==
    harm = {} =>
      /\ pc \in {"ready", "closing"} => Restart = nodes
      /\ pc \in {"header", "chain", "page", "root"} =>
           Restart \in {nodes, [nodes EXCEPT ![job.record.id] = Gone]}

\* What the engine keeps in memory about its pages is what is on disk: the cached page
\* is the end of the chain, and every live node is on the page the map says.
MemoryMatches ==
    harm = {} /\ pc \in {"ready", "closing"} =>
      /\ cached.page # 0 => cached.image = Latest(cached.page)
      /\ LET chain == Chain(Images, header.root)
             pages == PagesIn(LiveRecords(Images, chain), chain)
         IN  /\ cached.page = ChainEnd(chain)
             /\ \A id \in Id : nodes[id] # Gone => pageOf[id] = pages[id]

\* No single step, death included, changes what a restart finds for two nodes.
OneNodeAtATime ==
    [][harm' = {} => \A before \in {Restart}, after \in {Restart'} :
                       Cardinality({id \in Id : after[id] # before[id]}) <= 1]_vars

\* As long as the process was never killed, a new node does not replace a live one
\* (REQ-STORE-001), in this session or after a restart.
NextIdAhead ==
    ~ killed /\ harm = {} => LET found == Restart IN
      \A id \in Id : /\ nodes[id] # Gone => id < memHeader.nextId
                     /\ pc = "closed" /\ found[id] # Gone => id < header.nextId

-----------------------------------------------------------------------------
(* The inductive invariant.                                                *)

\* A record is under way in the middle of persist_node and at no other time.
Jobs == /\ job # NoJob <=> pc \in {"header", "chain", "page", "root"}
        /\ pc = "chain" => cached.page # 0
        /\ pc = "closed" => nodes = NoNodes

\* Pages are taken in order, hold nothing until they are written, and point forward.
Pages ==
    harm = {} =>
      /\ \A p \in allocated, q \in DataPage : q < p => q \in allocated
      /\ \A p \in DataPage \ allocated : Images[p] = ZeroPage
      /\ \A p \in DataPage : Images[p].next # 0 => Images[p].next \in allocated /\ p < Images[p].next
      /\ {header.root, memHeader.root, cached.page, job.page} \subseteq {0} \cup allocated

OnChain(images, root) == {Chain(images, root)[k] : k \in 1..MaxPage} \ {0}
IsEnd(images, root, p) == IF root = 0 THEN p = 0 ELSE p \in OnChain(images, root) /\ images[p].next = 0

\* The current page is the last of the chain on disk but for the steps that lengthen the chain, and
\* for the first page of all, which the chain has at last.
FirstPageWritten == /\ header.root = 0 /\ memHeader.root = job.page /\ cached.page = job.page
                    /\ Images[job.page] = PackRecord(EmptyPage(0), job.record)
                    /\ pageOf[job.record.id] = job.page
Ends ==
    harm = {} /\ pc # "closed" =>
      /\ cached.page # 0 => cached.image = Images[cached.page]
      /\ pc # "root" => memHeader.root = header.root
      /\ pc = "root" => FirstPageWritten
      /\ pc = "page" => IsEnd(Images, header.root, IF cached.page = 0 THEN 0 ELSE job.page)
      /\ pc \notin {"page", "root"} => IsEnd(Images, header.root, cached.page)

\* The record under way is the node in memory, and its page holds nothing yet.
Writing ==
    harm = {} /\ job # NoJob =>
      /\ ~ job.record.deleted /\ nodes[job.record.id] = job.record.value
      /\ pc # "root" => Images[job.page] = ZeroPage
      /\ pc \in {"header", "chain"} => cached.page < job.page

\* The live records along the chain are the nodes `found`, each on the page that `on` gives.
LiveIn(image) == {x \in {ReadRecords(image)[k] : k \in 1..Len(ReadRecords(image))} : ~ x.deleted}
Stored(images, root, found, on) ==
    /\ \A p \in OnChain(images, root) : \A x \in LiveIn(images[p]) :
         found[x.id] = x.value /\ on[x.id] = p
    /\ \A id \in Id : found[id] # Gone =>
         on[id] \in OnChain(images, root) /\ \E x \in LiveIn(images[on[id]]) : x.id = id

\* Of the nodes in memory, those whose record the chain has.
Settled == IF job = NoJob THEN nodes ELSE [nodes EXCEPT ![job.record.id] = Gone]
AllStored == harm = {} /\ pc # "closed" => Stored(Images, header.root, Settled, pageOf)

\* What makes it possible for the next session to do as well: no id is live on two pages or twice
\* with different values.
OneEach(images, root) ==
    \A p, q \in OnChain(images, root) : \A x \in LiveIn(images[p]), y \in LiveIn(images[q]) :
       x.id = y.id => p = q /\ x.value = y.value
LeftInOrder == harm = {} /\ pc = "closed" => OneEach(Images, header.root)

Inv == TypeOK /\ Jobs /\ Pages /\ Ends /\ Writing /\ AllStored /\ LeftInOrder /\ NextIdAhead
=============================================================================
