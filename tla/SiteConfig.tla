----------------------------- MODULE SiteConfig -----------------------------
(***************************************************************************)
(* Configuration options that are edited while the site runs.  They are    *)
(* kept in the system_info table, one row each, and copied to the config   *)
(* of every web process.  Each row is a transaction of its own.  An update *)
(* ends by writing its time to a row; every request compares that row with *)
(* the time that its process knows, and copies all options if they differ. *)
(* A process serves one request at a time.                                 *)
(***************************************************************************)
EXTENDS Naturals

CONSTANTS
    Processes,
    Options,      \* update_configuration_schema; options are written in any order
    Values,
    File,         \* the value that the configuration file gives to options
    Unset,        \* no row for an option
    MayReset,     \* the reset page is used
    MayDie,       \* processes die in a request
    MaxTime       \* bound: the clock ticks when an update starts and when it ends

Never == 0

VARIABLES
    info,         \* info[k]: the row of option k
    stamp,        \* ckan.config_update
    clock,
    config,       \* config[p]: the options of process p
    known,        \* known[p]: _config_update of process p
    job           \* job[p]: what p does

vars == <<info, stamp, clock, config, known, job>>

\* What an update was sent: values of some of the options.
Sent == UNION {[K -> Values] : K \in SUBSET Options}

Idle == [pc |-> "idle", left |-> {}, new |-> [k \in {} |-> File], then |-> "idle",
         value |-> Never]

TypeOK ==
    /\ info \in [Options -> Values \cup {Unset}]
    /\ clock \in 0..MaxTime
    /\ stamp \in 0..clock
    /\ config \in [Processes -> [Options -> Values \cup {File}]]
    /\ known \in [Processes -> 0..MaxTime]
    /\ job \in [Processes -> [pc : {"idle", "reload", "serve", "update", "reset"},
                             left : SUBSET Options, new : Sent,
                             then : {"idle", "serve"}, value : 0..MaxTime]]
    /\ \A p \in Processes :
         job[p].pc = "update" => job[p].left \subseteq DOMAIN job[p].new

Init ==
    /\ info = [k \in Options |-> Unset]
    /\ stamp = Never
    /\ clock = 0
    /\ config = [p \in Processes |-> [k \in Options |-> File]]
    /\ known = [p \in Processes |-> Never]
    /\ job = [p \in Processes |-> Idle]

-----------------------------------------------------------------------------
\* Mutant of Effective: the row, if there is one or not.
EffectiveRow(k) == info[k]

\* get_config_value: the row, or what the file says.
Effective(k) == IF info[k] # Unset THEN info[k] ELSE File

At(p, pc) == job[p].pc = pc

\* _check_uptodate, before every request.
Request(p) ==
    /\ At(p, "idle")
    /\ job' = [job EXCEPT ![p] =
                 IF known[p] # stamp
                 THEN [Idle EXCEPT !.pc = "reload", !.left = Options,
                                   !.value = stamp, !.then = "serve"]
                 ELSE [Idle EXCEPT !.pc = "serve"]]
    /\ UNCHANGED <<info, stamp, clock, config, known>>

\* reset: the options are copied one by one; then the process knows the time
\* that was read before.  The reset page and a new process do not care.
Reload(p) ==
    LET q == job[p]
    IN  /\ At(p, "reload")
        /\ IF q.left # {}
           THEN /\ \E k \in q.left :
                     /\ config' = [config EXCEPT ![p][k] = Effective(k)]
                     /\ job' = [job EXCEPT ![p].left = @ \ {k}]
                /\ UNCHANGED known
           ELSE /\ known' = IF q.value # Never THEN [known EXCEPT ![p] = q.value] ELSE known
                /\ job' = [job EXCEPT ![p] = [Idle EXCEPT !.pc = q.then]]
                /\ UNCHANGED config
        /\ UNCHANGED <<info, stamp, clock>>

\* The request does nothing with options, or
Serve(p) ==
    /\ At(p, "serve")
    /\ job' = [job EXCEPT ![p] = Idle]
    /\ UNCHANGED <<info, stamp, clock, config, known>>

\* config_option_update with some of the options,
StartUpdate(p) ==
    /\ At(p, "serve")
    /\ clock < MaxTime
    /\ clock' = clock + 1
    /\ \E new \in Sent :
         /\ DOMAIN new # {}
         /\ job' = [job EXCEPT ![p] = [Idle EXCEPT !.pc = "update", !.new = new,
                                                   !.left = DOMAIN new]]
    /\ UNCHANGED <<info, stamp, config, known>>

\* or ResetConfigView.post.
StartReset(p) ==
    /\ MayReset
    /\ At(p, "serve")
    /\ clock < MaxTime
    /\ clock' = clock + 1
    /\ job' = [job EXCEPT ![p] = [Idle EXCEPT !.pc = "reset", !.left = Options]]
    /\ UNCHANGED <<info, stamp, config, known>>

\* Mutant of Update: the time is written with the first option.
UpdateMutant(p) ==
    LET q == job[p]
    IN  /\ At(p, "update")
        /\ IF q.left # {}
           THEN /\ \E k \in q.left :
                     /\ info' = [info EXCEPT ![k] = q.new[k]]
                     /\ config' = [config EXCEPT ![p][k] = q.new[k]]
                     /\ job' = [job EXCEPT ![p].left = @ \ {k}, ![p].value = clock]
                /\ stamp' = IF q.value = Never THEN clock ELSE stamp
           ELSE job' = [job EXCEPT ![p] = Idle] /\ UNCHANGED <<info, config, stamp>>
        /\ UNCHANGED <<clock, known>>

\* set_system_info and the config of this process, for each option; then the
\* time, which no other update has.
Update(p) ==
    LET q == job[p]
    IN  /\ At(p, "update")
        /\ IF q.left # {}
           THEN /\ \E k \in q.left :
                     /\ info' = [info EXCEPT ![k] = q.new[k]]
                     /\ config' = [config EXCEPT ![p][k] = q.new[k]]
                     /\ job' = [job EXCEPT ![p].left = @ \ {k}]
                /\ UNCHANGED <<stamp, clock>>
           ELSE /\ clock < MaxTime
                /\ clock' = clock + 1
                /\ stamp' = clock + 1
                /\ job' = [job EXCEPT ![p] = Idle]
                /\ UNCHANGED <<info, config>>
        /\ UNCHANGED known

\* delete_system_info for each option; then this process copies them.
Reset(p) ==
    LET q == job[p]
    IN  /\ At(p, "reset")
        /\ IF q.left # {}
           THEN \E k \in q.left :
                  /\ info' = [info EXCEPT ![k] = Unset]
                  /\ job' = [job EXCEPT ![p].left = @ \ {k}]
           ELSE /\ job' = [job EXCEPT ![p] = [Idle EXCEPT !.pc = "reload", !.left = Options]]
                /\ UNCHANGED info
        /\ UNCHANGED <<stamp, clock, config, known>>

\* A process is replaced, between requests or in one: update_config.
Restart(p) ==
    /\ At(p, "idle") \/ MayDie
    /\ config' = [config EXCEPT ![p] = [k \in Options |-> File]]
    /\ known' = [known EXCEPT ![p] = Never]
    /\ job' = [job EXCEPT ![p] = [Idle EXCEPT !.pc = "reload", !.left = Options]]
    /\ UNCHANGED <<info, stamp, clock>>

Next ==
    \E p \in Processes :
        \/ Request(p) \/ Reload(p) \/ Serve(p)
        \/ StartUpdate(p) \/ Update(p)
        \/ StartReset(p) \/ Reset(p)
        \/ Restart(p)

Spec == Init /\ [][Next]_vars

-----------------------------------------------------------------------------
\* When no update is going on, a process whose next request will find nothing
\* to copy has the options that were set last (_check_uptodate: "check the config is uptodate
\* needed when several instances are running").
UpToDate ==
    (\A p \in Processes : job[p].pc \notin {"update", "reset"}) =>
        \A p \in Processes :
            job[p].pc = "idle" /\ known[p] = stamp =>
                \A k \in Options : config[p][k] = Effective(k)
=============================================================================
