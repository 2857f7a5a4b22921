--------------------------- MODULE CollabDocuments ---------------------------
(***************************************************************************)
(* The shared document of a project: what collab/src/index.ts and          *)
(* persistence.ts do with it, y-websocket's server and the web client's    *)
(* tabs (hooks/useCollab.ts).                                              *)
(*                                                                         *)
(* The connection handler creates a Y.Doc, registers it in its map docs,   *)
(* loads the saved state into it and saves it some time after its last     *)
(* update.  The document the tabs are synchronised with is another one:    *)
(* setupWSConnection takes only the project's name, and y-websocket keeps  *)
(* a map of its own.  A document is the set of edits it holds; merging is  *)
(* the library's.                                                          *)
(***************************************************************************)
CONSTANTS
  Tabs,       \* tabs of web clients
  UserOf,     \* the user of each tab
  Edits       \* edits, each made once

VARIABLES
  tab,        \* each tab: its document and whether it is connected
  made,       \* edits made so far
  room,       \* users in the awareness room, one entry however many tabs
  registered, \* the map docs: {} or the project's document in it
  served,     \* y-websocket's document of the project
  saveTimer,  \* {} or what the pending timer would save
  saved,      \* the saved state
  settled     \* history: edits the server had when a quiet period ended

docVars == <<tab, made, room, registered, served, saveTimer, saved, settled>>

DocsInit ==
  /\ tab = [c \in Tabs |-> [connected |-> FALSE, doc |-> {}]]
  /\ made = {}
  /\ room = {}
  /\ registered = {}
  /\ served = {}
  /\ saveTimer = {}
  /\ saved = {}
  /\ settled = {}

\* debouncedSave, the 'update' handler of the registered document.
DebouncedSave ==
  saveTimer' = IF registered' \in {registered, {}} THEN saveTimer ELSE registered'

\* wss.on('connection'): the document is created, loaded, and only then observed.
OpenTab(c) ==
  /\ ~tab[c].connected
  /\ tab' = [tab EXCEPT ![c].connected = TRUE]
  /\ room' = room \cup {UserOf[c]}
  /\ registered' = IF registered = {} THEN {saved} ELSE registered
  /\ UNCHANGED <<made, served, saveTimer, saved, settled>>

\* ws.on('close'); reloading the tab begins with an empty document.
CloseTab(c) ==
  /\ tab[c].connected
  /\ \E kept \in {tab[c].doc, {}} : tab' = [tab EXCEPT ![c] = [connected |-> FALSE, doc |-> kept]]
  /\ room' = room \ {UserOf[c]}
  /\ registered' = IF room' = {} THEN {} ELSE registered
  /\ UNCHANGED <<made, served, saveTimer, saved, settled>>

\* A user edits, connected or not.
MakeEdit(c, e) ==
  /\ e \notin made
  /\ made' = made \cup {e}
  /\ tab' = [tab EXCEPT ![c].doc = @ \cup {e}]
  /\ UNCHANGED <<room, registered, served, saveTimer, saved, settled>>

\* An update, or the synchronisation after connecting, reaches the server.
Upload(c, e) ==
  /\ tab[c].connected
  /\ e \in tab[c].doc \ served
  /\ served' = served \cup {e}
  /\ UNCHANGED registered
  /\ DebouncedSave
  /\ UNCHANGED <<tab, made, room, saved, settled>>

\* It reaches a tab.
Download(c, e) ==
  /\ tab[c].connected
  /\ e \in served \ tab[c].doc
  /\ tab' = [tab EXCEPT ![c].doc = @ \cup {e}]
  /\ UNCHANGED <<made, room, registered, served, saveTimer, saved, settled>>

SaveFires ==
  /\ \E content \in saveTimer : saved' = content
  /\ saveTimer' = {}
  /\ UNCHANGED <<tab, made, room, registered, served, settled>>

\* Longer than DEBOUNCE_MS passes without an update: a timer has fired by then.
Quiet ==
  /\ saveTimer = {}
  /\ settled' = settled \cup served
  /\ UNCHANGED <<tab, made, room, registered, served, saveTimer, saved>>

\* The process starts again; tabs keep their documents.
RestartServer ==
  /\ tab' = [c \in Tabs |-> [tab[c] EXCEPT !.connected = FALSE]]
  /\ room' = {} /\ registered' = {} /\ served' = {} /\ saveTimer' = {}
  /\ UNCHANGED <<made, saved, settled>>

DocsNext ==
  \/ \E c \in Tabs :
       \/ OpenTab(c) \/ CloseTab(c)
       \/ \E e \in Edits : MakeEdit(c, e) \/ Upload(c, e) \/ Download(c, e)
  \/ SaveFires \/ Quiet
  \/ RestartServer

DocsSpec == DocsInit /\ [][DocsNext]_docVars
=============================================================================
