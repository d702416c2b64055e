------------------------------ MODULE MCProcesses ------------------------------
(* The programs of several processes or threads, and the two ways to connect *)
(* in time, each on its own: a behaviour runs one of them, and the others    *)
(* stay where they start.                                                    *)
EXTENDS ProcessPool

VARIABLE program

-----------------------------------------------------------------------------
(* PoolCgi                                                                  *)

CONSTANTS PROCESS_COUNT, Conns, Requests, Name, Ghost, End, BUFFER_SIZE, MaxFailures
VARIABLES cgi_parent, cgi_forked, pid, sub_process_counter, stop_server, cgi_pending, cgi_sigpipe,
          cgi_events, cgi_signals, cgi_child, at, stop_child, term, chld, notices, cgi_cevents,
          missed, cgi_edges, cgi_cedges, cgi_backlog, holder, coming, inbox, buf, peer, cgi, owner,
          cgi_terms, failures
Cgi == INSTANCE PoolCgi WITH
         parent <- cgi_parent, forked <- cgi_forked, pending <- cgi_pending,
         sigpipe <- cgi_sigpipe, events <- cgi_events, signals <- cgi_signals, child <- cgi_child,
         cevents <- cgi_cevents, edges <- cgi_edges, cedges <- cgi_cedges,
         backlog <- cgi_backlog, terms <- cgi_terms
cgiVars == << cgi_parent, cgi_forked, pid, sub_process_counter, stop_server, cgi_pending,
              cgi_sigpipe, cgi_events, cgi_signals, cgi_child, at, stop_child, term, chld, notices,
              cgi_cevents, missed, cgi_edges, cgi_cedges, cgi_backlog, holder, coming, inbox, buf,
              peer, cgi, owner, cgi_terms, failures >>

ASSUME CgiAssumption == Cgi!CgiAssumption

\* A file that is there, and a line that overruns the buffer.
MCRequests == { << Name, End >>, << Ghost, Ghost, End >> }

-----------------------------------------------------------------------------
(* OneShot                                                                  *)

CONSTANTS Clients, Fds, MaxThreads, MaxSaid, listenfd, Garbage, None
VARIABLES armed, shot_events, edge, shot_backlog, fds_for_new_worker, thread, conn, shot_peer,
          unread, said, abandoned, overtaken
Shot == INSTANCE OneShot WITH events <- shot_events, backlog <- shot_backlog, peer <- shot_peer
shotVars == << armed, shot_events, edge, shot_backlog, fds_for_new_worker, thread, conn, shot_peer,
               unread, said, abandoned, overtaken >>

MCFds == {5, 6}

ASSUME ShotAssumption == Shot!FdsAssumption

-----------------------------------------------------------------------------
(* MutualLock, AtFork, SemUndo and Connect                                  *)

CONSTANT Time
VARIABLES lock_mutex, val, lock_pc,  mutex, copy, another, main, fork_child, atFork,
          sem, undo, sem_pc,  how, connect_pc, ret, sock, block, junk, link, waited
lockVars    == << lock_mutex, val, lock_pc >>
forkVars    == << mutex, copy, another, main, fork_child, atFork >>
semVars     == << sem, undo, sem_pc >>
connectVars == << how, connect_pc, ret, sock, block, junk, link, waited >>
Locks   == INSTANCE MutualLock WITH mutex <- lock_mutex, pc <- lock_pc
Forks   == INSTANCE AtFork WITH child <- fork_child
Sem     == INSTANCE SemUndo WITH pc <- sem_pc
Connects == INSTANCE Connect WITH pc <- connect_pc

-----------------------------------------------------------------------------
Programs == {"ProcessPool", "PoolCgi", "OneShot", "MutualLock", "AtFork", "SemUndo", "Connect"}

\* What the programs other than p keep.
Keep(p) ==
  /\ program = p /\ UNCHANGED program
  /\ p # "ProcessPool" => UNCHANGED vars
  /\ p # "PoolCgi" => UNCHANGED cgiVars
  /\ p # "OneShot" => UNCHANGED shotVars
  /\ p # "MutualLock" => UNCHANGED lockVars
  /\ p # "AtFork" => UNCHANGED forkVars
  /\ p # "SemUndo" => UNCHANGED semVars
  /\ p # "Connect" => UNCHANGED connectVars

MCInit ==
  /\ program \in Programs
  /\ Init /\ Cgi!Init /\ Shot!Init /\ Locks!Init /\ Forks!Init /\ Sem!Init /\ Connects!Init
  /\ program # "Connect" => how = "timeout_connect"    \* one start for the others

MCNext ==
  \/ Keep("ProcessPool") /\ Next
  \/ Keep("PoolCgi")     /\ Cgi!Next
  \/ Keep("OneShot")     /\ Shot!Next
  \/ Keep("MutualLock")  /\ Locks!Next
  \/ Keep("AtFork")      /\ Forks!Next
  \/ Keep("SemUndo")     /\ Sem!Next
  \/ Keep("Connect")     /\ Connects!Next

\* The fairness of each of the two pools.
MCSpec ==
  /\ MCInit
  /\ [][MCNext]_<< program, vars, cgiVars, shotVars, lockVars, forkVars, semVars, connectVars >>
  /\ WF_vars(program = "ProcessPool" /\ ParentStep)
  /\ \A i \in Idx : WF_vars(program = "ProcessPool" /\ ChildStep(i))
  /\ \A i \in Cgi!Idx : WF_cgiVars(program = "PoolCgi" /\ Cgi!ChildStep(i))

-----------------------------------------------------------------------------
\* Both pools keep their types (the types of each module).
TypesOK ==
  /\ program = "ProcessPool" => TypeOK
  /\ program = "PoolCgi" => Cgi!TypeOK

\* In neither pool is a notification without its connection, or a connection passed
\* over but by a merge or a death.
NotificationsMatchConns ==
  /\ [](NotifiedHaveConns /\ Cgi!NotifiedHaveConns)
  /\ PassedOverByMergeOrDeath /\ Cgi!PassedOverByMergeOrDeath

\* The signals of both pools do what they are for.
SignalsTakeEffect == DeathNoticed /\ TermStops /\ Cgi!TermReaches

\* The property of PoolCgi.
NothingLeftUnread == Cgi!NothingLeftUnread

\* The property of OneShot.
OneKeeper == Shot!OneKeeper

\* The pools end after their children, and the short programs as they say, or as
\* they are there to show.
EndsAsShown ==
  /\ LastToLeave /\ Cgi!LastToLeave
  /\ Locks!EndsInOrderOrEmbrace
  /\ Forks!EndsUnlessForkedLocked
  /\ Sem!SemCountsHolders
  /\ Connects!ReturnsWhatItSays
=============================================================================
