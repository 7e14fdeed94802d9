-------------------------- MODULE DevelopmentServer --------------------------
(***************************************************************************)
(* appstruct dev: one thread that prepares a project, starts its API and   *)
(* its web server, watches the sources and rebuilds, while the developer   *)
(* goes on editing.  Sources are read when a step needs them, and a step   *)
(* that compiles takes its time.  What survives a session is the generated *)
(* tree, the debug binary and the two caches that say what they were made  *)
(* from.                                                                   *)
(***************************************************************************)
EXTENDS Null, Naturals, Sequences

CONSTANTS
  Native,      \* the watcher of the operating system
  Version,     \* contents a source may have; an edit may bring one back
  MaxEdits,    \* bound
  MaxStarts,   \* bound: sessions
  MaxFailures  \* bound: steps that fail, watchers and servers that end

\* What is watched, by what a change of it asks for.
Source == {"spec", "environment", "backend", "web"}

ASSUME DevelopmentAssumption ==
  /\ 0 \in Version /\ None \notin Version
  /\ Native # None /\ {Native, None} \cap [Source -> Version] = {}
  /\ MaxEdits \in Nat /\ MaxStarts \in Nat /\ MaxFailures \in Nat

VARIABLES
  src,          \* contents of the sources
  mode, todo,   \* where the thread is, and the steps it goes through
  watch,        \* None, Native, or the contents a poll compares with
  unread,       \* events in the watcher's channel
  noticed,      \* changes received, until nothing comes for 150 ms
  environment,  \* what the session loaded
  migrated,     \* the specification the database was migrated to
  reading,      \* the specification the generator compiled and now writes
  tree, treeKey,       \* generated/ and the key in generation-state.json
  binary, binaryKey,   \* the debug binary and the key in backend-build.json
  api, web,     \* the processes: what they were started from, or None
  stopping,     \* Ctrl-C
  failed,       \* history: reloads that failed and were not made up for
  missed,       \* history: sources whose changes no watcher reports any more
  edits, sessions, trouble

project == <<src, edits>>
watcher == <<watch, unread, noticed>>
outputs == <<environment, migrated, reading, tree, treeKey, binary, binaryKey>>
servers == <<api, web>>
history == <<failed, missed>>
devVars == <<project, mode, todo, watcher, outputs, servers, stopping, history, sessions, trouble>>

\* What a preparation does, and before what it looks for Ctrl-C.
Step(does, checked) == [does |-> does, checked |-> checked]
After(step) == Step(step, TRUE)
Always(step) == Step(step, FALSE)

Prepare == <<After("migrate"), After("plan"), Always("write"), After("build"), Always("record"),
             After("install")>>
Startup ==
  <<After("load")>> \o Prepare \o <<Always("spawn"), After("web"), After("watch")>>
Specification == <<Always("refresh"), Always("load")>> \o Prepare \o <<Always("restart")>>
Backend ==
  <<Always("refresh"), Always("plan"), Always("write"), After("build"), Always("record"),
    After("restart_api")>>
Web == <<Always("refresh")>>
Does == {"load", "migrate", "plan", "write", "build", "record", "install", "spawn", "web",
         "watch", "refresh", "restart", "restart_api"}

DevelopmentTypes ==
  /\ src \in [Source -> Version] /\ edits \in 0 .. MaxEdits
  /\ mode \in {"off", "start", "wait", "reload"} /\ todo \in Seq([does : Does, checked : BOOLEAN])
  /\ watch \in {None, Native} \cup [Source -> Version]
  /\ unread \subseteq Source /\ noticed \subseteq Source
  /\ {environment, migrated, reading, tree, treeKey, web} \subseteq Version \cup {None}
  /\ failed \subseteq {"specification", "backend"} /\ missed \subseteq Source
  /\ sessions \in 0 .. MaxStarts /\ trouble \in 0 .. MaxFailures

DevelopmentInit ==
  /\ src = [s \in Source |-> 0] /\ edits = 0
  /\ mode = "off" /\ todo = <<>> /\ watch = None /\ unread = {} /\ noticed = {}
  /\ environment = None /\ migrated = None /\ reading = None
  /\ tree = None /\ treeKey = None /\ binary = None /\ binaryKey = None
  /\ api = None /\ web = None /\ stopping = FALSE
  /\ failed = {} /\ missed = {} /\ sessions = 0 /\ trouble = 0
-----------------------------------------------------------------------------
(* External: the developer *)

\* No watcher of a session that starts reports an edit, and no poll one that
\* brings back what the last poll saw.
Unreported(s, v) ==
  IF watch \in {None, Native} THEN mode = "start" /\ watch = None ELSE v = watch[s]

Edit(s, v) ==
  /\ edits < MaxEdits /\ v # src[s]
  /\ src' = [src EXCEPT ![s] = v] /\ edits' = edits + 1
  /\ unread' = IF watch = Native THEN unread \cup {s} ELSE unread
  /\ missed' = IF Unreported(s, v) THEN missed \cup {s} ELSE missed
  /\ UNCHANGED <<mode, todo, watch, noticed, outputs, servers, stopping, failed, sessions, trouble>>

StartSession ==
  /\ mode = "off" /\ sessions < MaxStarts
  /\ sessions' = sessions + 1
  /\ mode' = "start" /\ todo' = Startup
  /\ watch' = None /\ unread' = {} /\ noticed' = {} /\ stopping' = FALSE
  /\ failed' = {} /\ missed' = {}
  /\ UNCHANGED <<project, outputs, servers, trouble>>

Interrupt ==
  /\ mode # "off" /\ ~stopping /\ stopping' = TRUE
  /\ UNCHANGED <<project, mode, todo, watcher, outputs, servers, history, sessions, trouble>>
-----------------------------------------------------------------------------
(* The steps of a preparation *)

At(step) ==
  todo # <<>> /\ Head(todo).does = step /\ ~(stopping /\ Head(todo).checked)

\* The steps that are left; the last one of a reload makes up for failures.
Goes(rest) ==
  /\ todo' = rest
  /\ mode' = IF rest = <<>> THEN "wait" ELSE mode
  /\ failed' = CASE At("restart") -> {}
                  [] At("restart_api") -> failed \ {"backend"}
                  [] OTHER -> failed
  /\ UNCHANGED <<project, stopping, sessions, trouble>>
Done == Goes(Tail(todo))

\* The specification and .env are read.
Load ==
  /\ At("load") /\ Done /\ environment' = src["environment"]
  /\ UNCHANGED <<watcher, migrated, reading, tree, treeKey, binary, binaryKey, servers, missed>>

\* By one of the policies but unmanaged: the database is brought to the
\* specification, or found to be there.
Migrate ==
  /\ At("migrate") /\ Done /\ migrated' = src["spec"]
  /\ UNCHANGED <<watcher, environment, reading, tree, treeKey, binary, binaryKey, servers, missed>>

TreeIsCached == tree # None /\ treeKey = src["spec"]

\* A hit skips the generator, which otherwise compiles what it finds now.
Plan ==
  /\ At("plan")
  /\ IF TreeIsCached
     THEN Goes(Tail(Tail(todo))) /\ UNCHANGED reading
     ELSE Done /\ reading' = src["spec"]
  /\ UNCHANGED <<watcher, environment, migrated, tree, treeKey, binary, binaryKey, servers, missed>>

\* The tree is replaced, and recorded under the fingerprint of the sources as
\* they are by then.
Write ==
  /\ At("write") /\ Done
  /\ tree' = reading /\ treeKey' = src["spec"] /\ reading' = None
  /\ UNCHANGED <<watcher, environment, migrated, binary, binaryKey, servers, missed>>

BackendKey == <<tree, src["backend"], environment>>
BinaryIsCached == binary # None /\ binaryKey = BackendKey

Build ==
  /\ At("build")
  /\ IF BinaryIsCached
     THEN Goes(Tail(Tail(todo))) /\ UNCHANGED binary
     ELSE Done /\ binary' = BackendKey
  /\ UNCHANGED <<watcher, environment, migrated, reading, tree, treeKey, binaryKey, servers, missed>>

\* The key is computed when cargo is done.
Record ==
  /\ At("record") /\ Done /\ binaryKey' = BackendKey
  /\ UNCHANGED <<watcher, environment, migrated, reading, tree, treeKey, binary, servers, missed>>

Install == At("install") /\ Done /\ UNCHANGED <<watcher, outputs, servers, missed>>

\* Both servers, with what is there now.
Spawn ==
  /\ (At("spawn") \/ At("restart"))
  /\ Done /\ api' = binary /\ web' = tree
  /\ UNCHANGED <<watcher, outputs, missed>>

RestartApi ==
  /\ At("restart_api") /\ Done /\ api' = binary
  /\ UNCHANGED <<watcher, outputs, web, missed>>

WaitForWeb == At("web") /\ web # None /\ Done /\ UNCHANGED <<watcher, outputs, servers, missed>>

\* The reload that is under way, and the sources it reads all over.
ReloadKind ==
  CASE \E i \in DOMAIN todo : todo[i].does = "restart" -> "specification"
    [] \E i \in DOMAIN todo : todo[i].does = "restart_api" -> "backend"
    [] OTHER -> "web"
Reads ==
  CASE ReloadKind = "specification" -> Source [] ReloadKind = "backend" -> {"backend"} [] OTHER -> {}

\* Native watching, or a poll that compares with what there is now.
Watches == {Native, src}

\* A new watcher takes the place of the one whose changes were received: what
\* came in since is not read any more, and the reload may not need it.
Watch ==
  /\ (At("watch") \/ At("refresh"))
  /\ Done
  /\ IF watch \in {None, Native} THEN watch' \in Watches ELSE UNCHANGED watch
  /\ unread' = {} /\ missed' = (missed \cup unread) \ Reads
  /\ UNCHANGED <<noticed, outputs, servers>>
-----------------------------------------------------------------------------
(* The loop *)

\* Mutant: a change received during the debounce replaces the earlier ones.
Latest(changes) == unread

Merged(changes) == changes \cup unread

Receive ==
  /\ mode = "wait" /\ watch = Native /\ unread # {}
  /\ noticed' = Merged(noticed) /\ unread' = {}
  /\ UNCHANGED <<project, mode, todo, watch, outputs, servers, stopping, history, sessions, trouble>>

Reload(changes) ==
  LET kind == IF changes \cap {"spec", "environment"} # {} THEN "specification"
              ELSE IF "backend" \in changes THEN "backend" ELSE "web"
  IN  /\ mode' = "reload"
      /\ todo' = CASE kind = "specification" -> Specification
                   [] kind = "backend" -> Backend
                   [] OTHER -> Web

\* Nothing came for 150 ms. Neither Ctrl-C nor a server's end is looked at
\* until the reload is over.
Debounced ==
  /\ mode = "wait" /\ noticed # {} /\ unread = {}
  /\ Reload(noticed) /\ noticed' = {}
  /\ UNCHANGED <<project, watch, unread, outputs, servers, stopping, history, sessions, trouble>>

\* Mutant: the contents a poll found are not kept.
ComparedAgain == watch
ComparedNext == src

Poll ==
  /\ mode = "wait" /\ watch \in [Source -> Version] /\ watch # src
  /\ Reload({s \in Source : watch[s] # src[s]}) /\ watch' = ComparedNext
  /\ UNCHANGED <<project, unread, noticed, outputs, servers, stopping, history, sessions, trouble>>

\* A change is noticed only by a poll from now on.
WatcherFails ==
  /\ mode = "wait" /\ watch = Native /\ trouble < MaxFailures
  /\ watch' = src /\ unread' = {} /\ noticed' = {}
  /\ missed' = missed \cup unread \cup noticed /\ trouble' = trouble + 1
  /\ UNCHANGED <<project, mode, todo, outputs, servers, stopping, failed, sessions>>

\* The session and what it started.
Ends == mode' = "off" /\ todo' = <<>> /\ api' = None /\ web' = None /\ reading' = None

\* Ctrl-C, or a server that is gone.
LoopEnds ==
  /\ mode = "wait" /\ noticed = {} /\ (stopping \/ api = None \/ web = None)
  /\ Ends
  /\ UNCHANGED <<project, watcher, environment, migrated, tree, treeKey, binary, binaryKey,
                 stopping, history, sessions, trouble>>

\* A file is gone between the listing and the reading of a poll.
PollFails ==
  /\ mode = "wait" /\ watch \in [Source -> Version]
  /\ trouble < MaxFailures /\ trouble' = trouble + 1
  /\ Ends
  /\ UNCHANGED <<project, watcher, environment, migrated, tree, treeKey, binary, binaryKey,
                 stopping, history, sessions>>

ServerExits ==
  /\ trouble < MaxFailures /\ trouble' = trouble + 1
  /\ \/ api # None /\ api' = None /\ UNCHANGED web
     \/ web # None /\ web' = None /\ UNCHANGED api
  /\ UNCHANGED <<project, mode, todo, watcher, outputs, stopping, history, sessions>>

\* A start that fails ends the session, and so does a watcher that cannot be
\* replaced; a reload that fails leaves the servers as they are, but for a
\* restart, which has stopped them.
Fails ==
  IF mode = "start" \/ At("refresh") THEN Ends /\ UNCHANGED failed
  ELSE /\ mode' = "wait" /\ todo' = <<>> /\ reading' = None
       /\ failed' = failed \cup {ReloadKind}
       /\ api' = IF At("restart") \/ At("restart_api") THEN None ELSE api
       /\ web' = IF At("restart") THEN None ELSE web

StepFails ==
  /\ todo # <<>> /\ ~(stopping /\ Head(todo).checked)
  /\ trouble < MaxFailures /\ trouble' = trouble + 1
  /\ Fails
  /\ UNCHANGED <<project, watcher, environment, migrated, tree, treeKey, binary, binaryKey,
                 stopping, missed, sessions>>

Interrupted ==
  /\ todo # <<>> /\ stopping /\ Head(todo).checked
  /\ Fails
  /\ UNCHANGED <<project, watcher, environment, migrated, tree, treeKey, binary, binaryKey,
                 stopping, missed, sessions, trouble>>

\* The web server went away while its port is waited for.
WebGone ==
  /\ At("web") /\ (api = None \/ web = None)
  /\ Ends
  /\ UNCHANGED <<project, watcher, environment, migrated, tree, treeKey, binary, binaryKey,
                 stopping, history, sessions, trouble>>
-----------------------------------------------------------------------------
Moves ==
  \/ Load \/ Migrate \/ Plan \/ Write \/ Build \/ Record \/ Install \/ Spawn \/ RestartApi
  \/ WaitForWeb \/ Watch \/ Receive \/ Debounced \/ Poll \/ LoopEnds \/ Interrupted \/ WebGone

DevelopmentNext ==
  \/ Moves \/ StepFails \/ WatcherFails \/ PollFails \/ ServerExits
  \/ StartSession \/ Interrupt \/ \E s \in Source, v \in Version : Edit(s, v)

\* Commands finish and the loop comes around.
DevelopmentSpec == DevelopmentInit /\ [][DevelopmentNext]_devVars /\ WF_devVars(Moves)
-----------------------------------------------------------------------------
(* Properties *)

\* The loop waits and there is nothing it could be told.
Idle == mode = "wait" /\ unread = {} /\ noticed = {} /\ (watch = Native \/ watch = src)

\* A key is computed after what it stands for: an edit in between makes it
\* vouch for contents that were never compiled.
KeysAreTrue ==
  /\ tree # None => treeKey = tree
  /\ binary # None /\ ~(todo # <<>> /\ Head(todo).does = "record") => binaryKey = binary

\* When the session waits, what it serves was made from the sources as they
\* are, with the database migrated to them, whatever was edited meanwhile;
\* unless a rebuild failed, a change was lost with a watcher or came before
\* there was one, or a cache was recorded while its sources changed.
\* (run, reload, prepare)
ServedIsCurrent ==
  Idle /\ failed = {} /\ missed = {} /\ KeysAreTrue /\ api # None /\ web # None =>
    /\ api = <<src["spec"], src["backend"], src["environment"]>>
    /\ web = src["spec"] /\ migrated = src["spec"]

\* A cache only saves work: what is reused is what the full flow would make.
\* (TECHNICAL_DESIGN.en.md:1391)
ReusesOnlyTheSame ==
  /\ Plan /\ TreeIsCached => tree = src["spec"]
  /\ Build /\ BinaryIsCached => binary = BackendKey
CacheOnlySavesWork == [][ReusesOnlyTheSame]_devVars

\* A session that is told to stop ends, and a change leads to one rebuild and
\* not to another: again and again there is no session, or one that waits.
\* (run)
Settled == mode = "off" \/ (Idle /\ ~stopping)
SessionsSettle == []<>Settled
=============================================================================
