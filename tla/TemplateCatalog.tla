-------------------------- MODULE TemplateCatalog --------------------------
(***************************************************************************)
(* The template catalog of one organization: the automatic refresh that    *)
(* three pages of the frontend trigger (sync_templates), the import by     *)
(* hand and the plain create and patch.  A refresh discovers the templates *)
(* of the active cluster, locks the organization's row (FOR UPDATE), reads *)
(* the catalog and adds what is missing.  Names and the enabled flag,      *)
(* which a refresh never writes to a row that exists, are left out.        *)
(*                                                                         *)
(* A request reads and commits in two steps, as the workers of several API *)
(* processes interleave; in one process, where nothing is awaited between  *)
(* the two, they are taken one after the other.                            *)
(***************************************************************************)
EXTENDS Integers

CONSTANTS
  Refresh,      \* refresh requests
  Import,       \* import requests
  CatalogRow,   \* rows of vm_templates
  ServerOf,     \* clusters with templates
  TemplateId,   \* VMIDs of templates
  TemplateNode, \* nodes
  NoServer,     \* the cluster of a row that predates clusters; no node, no row
  MaxEdits      \* bound on rows created or patched and clusters activated

ASSUME CatalogBounds ==
  /\ NoServer \notin ServerOf \cup TemplateNode \cup CatalogRow
  /\ TemplateId # {} /\ MaxEdits \in Nat

VARIABLES
  catalog,    \* the committed rows
  activeNow,  \* the active cluster
  refreshes,  \* the refresh requests
  imports,    \* the import requests
  edits       \* creates, patches and activations so far

catalogVars == <<catalog, activeNow, refreshes, imports, edits>>

Unused == [server |-> NoServer, vmid |-> 0, node |-> NoServer, byHand |-> FALSE]

Rows(c) == {r \in CatalogRow : c[r].vmid # 0}

\* The rows for a template of a cluster, and the row to adopt if it is alone.
RowsFor(c, s, v) == {r \in Rows(c) : c[r].server = s /\ c[r].vmid = v}

Legacy(c, v, n) == {r \in RowsFor(c, NoServer, v) : c[r].node = n}

Discoveries == [TemplateId -> TemplateNode \cup {NoServer}]

CatalogTypeOK ==
  LET Row == [server : ServerOf \cup {NoServer}, vmid : TemplateId \cup {0},
              node : TemplateNode \cup {NoServer}, byHand : BOOLEAN]
  IN  /\ catalog \in [CatalogRow -> Row]
      /\ activeNow \in ServerOf
      /\ refreshes \in [Refresh ->
           [pc : {"new", "discover", "lock", "locked", "done"},
            server : ServerOf, found : Discoveries,
            read : [CatalogRow -> Row]]]
      /\ imports \in [Import -> [pc : {"new", "write", "done"},
                                 server : ServerOf, vmid : TemplateId,
                                 row : CatalogRow \cup {NoServer}]]
      /\ edits \in 0..MaxEdits

----------------------------------------------------------------------------
(* The refresh.                                                            *)

OrganizationFree == \A s \in Refresh : refreshes[s].pc # "locked"

ReadActive(s) ==
  /\ refreshes[s].pc = "new"
  /\ refreshes' = [refreshes EXCEPT ![s].pc = "discover",
                                    ![s].server = activeNow]
  /\ UNCHANGED <<catalog, activeNow, imports, edits>>

\* The answer of the cluster, whatever its templates are by now; any error
\* in the discovery ends the request before it has written anything.
DiscoverTemplates(s) ==
  /\ refreshes[s].pc = "discover"
  /\ \/ \E found \in Discoveries :
          refreshes' = [refreshes EXCEPT ![s].pc = "lock", ![s].found = found]
     \/ refreshes' = [refreshes EXCEPT ![s].pc = "done"]
  /\ UNCHANGED <<catalog, activeNow, imports, edits>>

\* Mutant: the refresh reads the catalog without taking its lock.
LockCatalogMutant(s) ==
  /\ refreshes[s].pc = "lock"
  /\ refreshes' = [refreshes EXCEPT ![s].pc = "locked", ![s].read = catalog]
  /\ UNCHANGED <<catalog, activeNow, imports, edits>>

LockCatalog(s) ==
  /\ refreshes[s].pc = "lock" /\ OrganizationFree
  /\ refreshes' = [refreshes EXCEPT ![s].pc = "locked", ![s].read = catalog]
  /\ UNCHANGED <<catalog, activeNow, imports, edits>>

\* What the refresh makes of row r: the row's node follows the template; a
\* single legacy row is adopted; a free row takes a template without a row.
Refreshed(s, fresh) ==
  LET f == refreshes[s]
      Seen(v) == f.found[v] # NoServer
      Mine(v) == RowsFor(f.read, f.server, v)
      Adopts(v, r) == /\ Mine(v) = {}
                      /\ Legacy(f.read, v, f.found[v]) = {r}
  IN  [r \in CatalogRow |->
        IF \E v \in TemplateId : Seen(v) /\ fresh[v] = r
          THEN LET v == CHOOSE v \in TemplateId : Seen(v) /\ fresh[v] = r
               IN  [server |-> f.server, vmid |-> v, node |-> f.found[v],
                    byHand |-> FALSE]
        ELSE IF \E v \in TemplateId : Seen(v) /\ r \in Mine(v)
          THEN [catalog[r] EXCEPT !.node = f.found[f.read[r].vmid]]
        ELSE IF \E v \in TemplateId : Seen(v) /\ Adopts(v, r)
          THEN [catalog[r] EXCEPT !.server = f.server]
        ELSE catalog[r]]

Missing(s) ==
  LET f == refreshes[s]
  IN  {v \in TemplateId :
         /\ f.found[v] # NoServer
         /\ RowsFor(f.read, f.server, v) = {}
         /\ \A r \in CatalogRow : Legacy(f.read, v, f.found[v]) # {r}}

CommitRefresh(s) ==
  /\ refreshes[s].pc = "locked"
  /\ \/ \E fresh \in [TemplateId -> (CatalogRow \ Rows(catalog)) \cup {NoServer}] :
          /\ \A v \in TemplateId : fresh[v] # NoServer <=> v \in Missing(s)
          /\ \A v, w \in Missing(s) : fresh[v] = fresh[w] => v = w
          /\ catalog' = Refreshed(s, fresh)
     \/ UNCHANGED catalog
  /\ refreshes' = [refreshes EXCEPT ![s].pc = "done"]
  /\ UNCHANGED <<activeNow, imports, edits>>

----------------------------------------------------------------------------
(* Changes by hand.  They take no lock, but the foreign key of a new row   *)
(* waits for a refresh that has locked the organization.                   *)

ReadForImport(i) ==
  /\ imports[i].pc = "new"
  /\ \E v \in TemplateId :
       LET found == RowsFor(catalog, activeNow, v)
       IN  \E row \in IF found = {} THEN {NoServer} ELSE found :
             imports' = [imports EXCEPT
                           ![i] = [pc |-> "write", server |-> activeNow,
                                   vmid |-> v, row |-> row]]
  /\ UNCHANGED <<catalog, activeNow, refreshes, edits>>

Inserts(server, v) ==
  /\ OrganizationFree
  /\ \E r \in CatalogRow \ Rows(catalog), n \in TemplateNode :
       catalog' = [catalog EXCEPT
                     ![r] = [server |-> server, vmid |-> v, node |-> n,
                             byHand |-> TRUE]]

WriteImport(i) ==
  LET m == imports[i]
  IN  /\ m.pc = "write"
      /\ IF m.row = NoServer
           THEN Inserts(m.server, m.vmid)
           ELSE \E n \in TemplateNode :
                  catalog' = [catalog EXCEPT ![m.row].node = n]
      /\ imports' = [imports EXCEPT ![i].pc = "done"]
      /\ UNCHANGED <<activeNow, refreshes, edits>>

Edit == edits < MaxEdits /\ edits' = edits + 1

CreateTemplate ==
  /\ Edit
  /\ \E v \in TemplateId : Inserts(NoServer, v)
  /\ UNCHANGED <<activeNow, refreshes, imports>>

PatchTemplate ==
  /\ Edit
  /\ \E r \in Rows(catalog), v \in TemplateId, n \in TemplateNode :
       catalog' = [catalog EXCEPT ![r].vmid = v, ![r].node = n,
                                  ![r].byHand = TRUE]
  /\ UNCHANGED <<activeNow, refreshes, imports>>

ActivateServer ==
  /\ Edit
  /\ \E s \in ServerOf : activeNow' = s
  /\ UNCHANGED <<catalog, refreshes, imports>>

----------------------------------------------------------------------------
(* An empty catalog, or one row from before the cluster column.            *)
CatalogInit ==
  /\ \/ catalog = [r \in CatalogRow |-> Unused]
     \/ \E v \in TemplateId, n \in TemplateNode, r \in CatalogRow :
          catalog = [[q \in CatalogRow |-> Unused] EXCEPT
                       ![r].vmid = v, ![r].node = n]
  /\ activeNow \in ServerOf
  /\ refreshes = [s \in Refresh |->
       [pc |-> "new", server |-> activeNow,
        found |-> [v \in TemplateId |-> NoServer],
        read |-> [r \in CatalogRow |-> Unused]]]
  /\ imports = [i \in Import |->
       [pc |-> "new", server |-> activeNow,
        vmid |-> CHOOSE v \in TemplateId : TRUE, row |-> NoServer]]
  /\ edits = 0

CatalogNext ==
  \/ \E s \in Refresh : \/ ReadActive(s) \/ DiscoverTemplates(s)
                        \/ LockCatalog(s) \/ CommitRefresh(s)
  \/ \E i \in Import : ReadForImport(i) \/ WriteImport(i)
  \/ CreateTemplate \/ PatchTemplate \/ ActivateServer

CatalogSpec == CatalogInit /\ [][CatalogNext]_catalogVars

----------------------------------------------------------------------------
(* Refreshes that several pages and administrators trigger at the same     *)
(* time never put one template of a cluster into the catalog twice: of two *)
(* rows for it, one was imported, created or changed by hand.              *)
NoDoubleImport ==
  \A r, q \in Rows(catalog) :
    /\ r # q
    /\ catalog[r].server = catalog[q].server /\ catalog[r].server # NoServer
    /\ catalog[r].vmid = catalog[q].vmid
    => catalog[r].byHand \/ catalog[q].byHand
=============================================================================
