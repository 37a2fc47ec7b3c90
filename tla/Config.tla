------------------------------- MODULE Config -------------------------------
(***************************************************************************)
(* The registry of apps that ConfigParser fills (config.cc).  A config     *)
(* names an app wherever one is wanted: in "apps", as the app of an        *)
(* upstream, in the preamble of another app; by its name alone, before or  *)
(* after the app is defined, or with its definition in place, in which     *)
(* other apps may be defined in turn.  What the keys hold otherwise is in  *)
(* ConfigSections, but for the value that makes Parse fail.                *)
(***************************************************************************)
EXTENDS Integers, Sequences, Functions

CONSTANTS
    Name,
    Anonymous,  \* the empty name
    MaxApps,    \* App objects
    MaxDepth,   \* definitions inside definitions
    MaxPreamble,
    MaxCheckers \* checker Commands

ASSUME ConfigAssumption ==
    /\ Anonymous \notin Name
    /\ MaxApps \in Nat /\ MaxDepth \in Nat /\ MaxPreamble \in Nat /\ MaxCheckers \in Nat

VARIABLES
    apps,     \* the App objects in apps_; a pointer is a place in it, which never changes
    app_map,  \* app_map_
    open,     \* the `tmp` of each ParseApp that is running, the innermost first
    checkers, \* Commands made
    last,     \* for each name, the App that was last defined by it
    result    \* of Config::Parse

configVars == <<apps, app_map, open, checkers, last, result>>

NoChecker == 0
NewApp(name) == [name |-> name, preamble |-> <<>>, checker |-> NoChecker]

\* Config::GetApp: the app's pointer, and what the call leaves of apps_ and
\* app_map_.
GetApp(name) ==
    IF name \in DOMAIN app_map
    THEN [app |-> app_map[name], apps |-> apps, map |-> app_map]
    ELSE [app |-> Len(apps) + 1,
          apps |-> Append(apps, NewApp(name)),
          map |-> IF name = Anonymous THEN app_map
                  ELSE [n \in DOMAIN app_map \cup {name} |->
                           IF n = name THEN Len(apps) + 1 ELSE app_map[n]]]

\* What asked for an app gets its pointer: the preamble of the definition
\* around it takes it, "apps" and an upstream need no more.
Deliver(frames, app) ==
    IF frames = <<>> THEN frames
    ELSE [frames EXCEPT ![1].preamble = Append(@, app)]

Wanted == \A i \in DOMAIN open : Len(open[i].preamble) < MaxPreamble

-----------------------------------------------------------------------------

\* ParseApp of a string.
Refer(name) ==
    /\ result = "running" /\ Wanted
    /\ LET found == GetApp(name)
       IN /\ Len(found.apps) <= MaxApps
          /\ apps' = found.apps /\ app_map' = found.map
          /\ open' = Deliver(open, found.app)
    /\ UNCHANGED <<checkers, last, result>>

\* ParseApp of an object.
Begin ==
    /\ result = "running" /\ Wanted /\ Len(open) < MaxDepth
    /\ open' = <<NewApp(Anonymous)>> \o open
    /\ UNCHANGED <<apps, app_map, checkers, last, result>>

\* The keys of an app; a key may come twice.
NameIs(name) ==
    /\ result = "running" /\ open # <<>>
    /\ open' = [open EXCEPT ![1].name = name]
    /\ UNCHANGED <<apps, app_map, checkers, last, result>>

CheckerIs ==
    /\ result = "running" /\ open # <<>> /\ checkers < MaxCheckers
    /\ checkers' = checkers + 1
    /\ open' = [open EXCEPT ![1].checker = checkers']
    /\ UNCHANGED <<apps, app_map, last, result>>

\* Variant: an app that was referred to before keeps what it was.
EndKeepsReferred ==
    /\ result = "running" /\ open # <<>>
    /\ LET tmp == Head(open)
           found == GetApp(tmp.name)
       IN /\ Len(found.apps) <= MaxApps
          /\ apps' = IF found.apps = apps THEN apps ELSE [found.apps EXCEPT ![found.app] = tmp]
          /\ app_map' = found.map
          /\ open' = Deliver(Tail(open), found.app)
          /\ last' = IF tmp.name = Anonymous THEN last
                     ELSE [n \in DOMAIN last \cup {tmp.name} |-> IF n = tmp.name THEN tmp ELSE last[n]]
    /\ UNCHANGED <<checkers, result>>

\* Variant: an app that has no checker gets the last one that was made.
EndSharesChecker ==
    /\ result = "running" /\ open # <<>>
    /\ LET tmp == [Head(open) EXCEPT !.checker = IF @ = NoChecker THEN checkers ELSE @]
           found == GetApp(tmp.name)
       IN /\ Len(found.apps) <= MaxApps
          /\ apps' = [found.apps EXCEPT ![found.app] = tmp]
          /\ app_map' = found.map
          /\ open' = Deliver(Tail(open), found.app)
          /\ UNCHANGED last
    /\ UNCHANGED <<checkers, result>>

\* The end of an app's object: `tmp` is moved to the App of its name, or to a
\* new one, which is what asked for it gets.
End ==
    /\ result = "running" /\ open # <<>>
    /\ LET tmp == Head(open)
           found == GetApp(tmp.name)
       IN /\ Len(found.apps) <= MaxApps
          /\ apps' = [found.apps EXCEPT ![found.app] = tmp]
          /\ app_map' = found.map
          /\ open' = Deliver(Tail(open), found.app)
          /\ last' = IF tmp.name = Anonymous THEN last
                     ELSE [n \in DOMAIN last \cup {tmp.name} |-> IF n = tmp.name THEN tmp ELSE last[n]]
    /\ UNCHANGED <<checkers, result>>

\* A value of the wrong type or an unknown key fails every Parse around it.
Fail ==
    /\ result = "running"
    /\ result' = "failed"
    /\ open' = <<>>
    /\ UNCHANGED <<apps, app_map, checkers, last>>

Succeed ==
    /\ result = "running" /\ open = <<>>
    /\ result' = "ok"
    /\ UNCHANGED <<apps, app_map, open, checkers, last>>

-----------------------------------------------------------------------------

ConfigInit ==
    /\ apps = <<>> /\ app_map = << >> /\ open = <<>>
    /\ checkers = 0 /\ last = << >> /\ result = "running"

ConfigNext ==
    \/ \E n \in Name : Refer(n) \/ NameIs(n)
    \/ Begin \/ CheckerIs \/ End \/ Fail \/ Succeed

ConfigSpec == ConfigInit /\ [][ConfigNext]_configVars

-----------------------------------------------------------------------------
(* Properties. *)

\* A name is one App, however often and in whichever order it is referred to
\* and defined, also inside its own definition: ProcessManager keeps its
\* state by the App's address.
OneAppPerName ==
    /\ \A n \in DOMAIN app_map :
         app_map[n] \in DOMAIN apps /\ apps[app_map[n]].name = n
    /\ \A i, j \in DOMAIN apps :
         apps[i].name = apps[j].name /\ apps[i].name # Anonymous => i = j

\* What an app was last defined to be is what those that refer to it get,
\* also when they did before.
ReferencesSeeDefinition ==
    \A n \in DOMAIN last : n \in DOMAIN app_map /\ apps[app_map[n]] = last[n]

\* A name means the same app wherever the config writes it, before the app is
\* defined or after (config.cc:223-243).
NamesAreApps == OneAppPerName /\ ReferencesSeeDefinition

\* ~Config deletes the checker of every app: none is deleted twice.
CheckersNotShared ==
    \A i, j \in DOMAIN apps :
        apps[i].checker = apps[j].checker /\ apps[i].checker # NoChecker => i = j
=============================================================================
