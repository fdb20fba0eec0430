------------------------------- MODULE Sampler -------------------------------
(***************************************************************************)
(* The dashboard's sampler: one round a second over the counters, state    *)
(* files and kernel records of a running machine                           *)
(* (yaoshi-dashboard/src/sampler/*.rs, lib.rs) and the health line drawn   *)
(* from it (yaoshi-screen/src/render/dashboard.rs).                        *)
(*                                                                         *)
(* A round is a sequence of reads, one action each, in the order of        *)
(* Sampler::sample; the machine moves between any two of them: devices     *)
(* come and go with their counters, files become unreadable, records are   *)
(* logged.  Counters are meters: the cores' busy ticks, the processes'     *)
(* ticks, one counter per disk and one per interface, standing for the     *)
(* four and the eight the code treats alike.  A round lasts one second, so *)
(* a rate is a difference.                                                 *)
(***************************************************************************)
EXTENDS Naturals, Sequences, FiniteSets, FiniteSetsExt, SequencesExt

CONSTANTS
    Cores,       \* processor numbers
    Pids,        \* process numbers
    Disks,       \* whole disks
    Nics,        \* network interfaces
    Loopback,    \* the interface "lo"
    Loads,       \* the amounts a meter can move by in one event
    AlertLimit,  \* kernel alerts retained (24)
    ReadLimit,   \* records read in one round (256 KiB of them)
    RingSize,    \* records the kernel keeps
    StaticAge,   \* rounds a static sample is kept (10 s)
    BootLogs,    \* what the kernel may have logged before the first round
    Budget,      \* bound: the parts of the machine, one of which moves in a
                 \* behaviour, and how often
    None         \* no baseline, no descriptor, no route

ASSUME SamplerLimits ==
    /\ Cores \subseteq Nat /\ Pids \subseteq Nat
    /\ IsFiniteSet(Cores) /\ IsFiniteSet(Pids)
    /\ IsFiniteSet(Disks) /\ IsFiniteSet(Nics)
    /\ Loopback \in Nics
    /\ Loads \subseteq Nat
    /\ {AlertLimit, ReadLimit, RingSize, StaticAge} \subseteq Nat \ {0}
    /\ BootLogs \subseteq Seq({"error", "warning", "info"})
    /\ \A part \in DOMAIN Budget : Budget[part] \in Nat

(* A machine has a processor, and no reader stands at a place called None.  *)
ASSUME SomeCore == Cores # {} /\ None \notin Nat

VARIABLES
    pc,          \* the read the round is at
    cpu, disk, network, process_cpu, \* the previous samples
    static_sample, kernel_alerts, kernel_alerts_unavailable, kmsg,
    snapshot,    \* what the rounds have read so far; complete when pc = "static"
    machine,     \* meters, devices, files and names of the machine
    log,         \* every record the kernel has logged
    real,        \* what each meter moved since its last reading
    counted,     \* the processors that were up when their ticks were last read
    opened,      \* where in the log the open descriptor started
    renamed,     \* rounds since the host name changed
    moving,      \* the part of the machine that moves
    events       \* events left

vars == <<pc, cpu, disk, network, process_cpu, static_sample, kernel_alerts,
          kernel_alerts_unavailable, kmsg, snapshot, machine, log, real, counted,
          opened, renamed, moving, events>>
baselines == <<cpu, disk, network, process_cpu>>
alerts == <<kernel_alerts, kernel_alerts_unavailable, kmsg, opened>>

-----------------------------------------------------------------------------
(* What a field of the screen can say.                                     *)

Value(n) == [kind |-> "value", n |-> n]
Measuring == [kind |-> "measuring", n |-> 0]
Unavailable == [kind |-> "unavailable", n |-> 0]

MetersOf(kind) ==
    {kind} \X (CASE kind = "core" -> Cores [] kind = "pid" -> Pids
                 [] kind = "disk" -> Disks [] kind = "nic" -> Nics)
Kinds == {"core", "pid", "disk", "nic"}
Meters == UNION {MetersOf(kind) : kind \in Kinds}
Sources == {"stat", "proc", "block", "diskstats", "net", "addr", "route", "tcp", "kmsg"}
Priorities == {"error", "warning", "info"}
PrepareTexts == {"applied", "running", "failed", "other", "absent"}
GrowthTexts == {"expanded", "failed", "absent"}

saturating_sub(a, b) == IF a > b THEN a - b ELSE 0
Total(f, S) == MapThenSumSet(LAMBDA x : f[x], S)
Readable(s) == s \notin machine.bad
Present(kind) == machine.present \cap MetersOf(kind)

(* The difference of the meters that are in both samples.                  *)
Delta(previous, current) ==
    LET both == DOMAIN previous \cap DOMAIN current
    IN  Total([m \in both |-> saturating_sub(current[m], previous[m])], both)

RateAgainst(previous, current) ==
    IF previous = None THEN Measuring ELSE Value(Delta(previous, current))

-----------------------------------------------------------------------------
(* The samplers, one action each.                                          *)

(* /proc/stat: ticks over all processors that were ever up, and one line   *)
(* per processor that is up, known by its place in the list.               *)
CoreTimes(c) == [idle |-> machine.idle[c],
                 total |-> machine.idle[c] + machine.count[<<"core", c>>]]
Online == {m[2] : m \in Present("core")}
CoreAt(cores, i) == CHOOSE c \in cores : Cardinality({d \in cores : d <= c}) = i
CpuTimes ==
    LET idle == Total(machine.idle, Cores)
    IN  [idle |-> idle,
         total |-> idle + Total(machine.count, MetersOf("core")),
         cores |-> [i \in 1..Cardinality(Online) |-> CoreTimes(CoreAt(Online, i))]]

Share(previous, now) ==
    LET total == saturating_sub(now.total, previous.total)
        idle == saturating_sub(now.idle, previous.idle)
    IN  [total |-> total, used |-> saturating_sub(total, idle)]

Percent(share) == Value((share.used * 100) \div share.total)

CoreRow(previous, cores, i) ==
    IF i \in DOMAIN previous /\ Share(previous[i], cores[i]).total > 0
    THEN Percent(Share(previous[i], cores[i]))
    ELSE Measuring

render_core_rows(previous, cores) ==
    [i \in DOMAIN cores |-> CoreRow(previous, cores, i)]

Read(kind) ==
    /\ real' = [m \in Meters |-> IF m[1] = kind THEN 0 ELSE real[m]]
    /\ counted' = IF kind = "core" THEN Online ELSE counted

StaticRead(sliding) ==
    LET fresh == static_sample = None \/ static_sample.age >= StaticAge
        kept == IF fresh THEN [age |-> 0, hostname |-> machine.hostname]
                         ELSE static_sample
    IN  /\ pc = "static" /\ pc' = "cpu"
        /\ static_sample' = [kept EXCEPT !.age = IF sliding THEN 1 ELSE @ + 1]
        /\ snapshot' = [snapshot EXCEPT !.hostname = kept.hostname]
        /\ renamed' = renamed + (IF renamed > StaticAge THEN 0 ELSE 1)
        /\ UNCHANGED <<baselines, alerts, machine, log, real, counted, events>>

(* The same when the age of the static sample is counted from its last use. *)
StaticSample_Sliding == StaticRead(TRUE)

StaticSample == StaticRead(FALSE)

UsedSince(previous, now) ==
    IF Share(previous, now).total = 0 THEN Unavailable
                                      ELSE Percent(Share(previous, now))

CpuUsage ==
    /\ pc = "cpu" /\ pc' = "process"
    /\ Read("core")
    /\ \/ /\ ~Readable("stat")
          /\ cpu' = None
          /\ snapshot' = [snapshot EXCEPT !.cpu = Unavailable, !.cores = <<>>]
       \/ /\ Readable("stat")
          /\ cpu' = CpuTimes
          /\ snapshot' = [snapshot EXCEPT
                 !.cpu = IF cpu = None THEN Measuring ELSE UsedSince(cpu, CpuTimes),
                 !.cores = render_core_rows(IF cpu = None THEN <<>> ELSE cpu.cores,
                                            CpuTimes.cores)]
    /\ UNCHANGED <<disk, network, process_cpu, static_sample, alerts,
                   machine, log, renamed, events>>

(* The busiest process known from both samples: most ticks, then most      *)
(* memory, then the lower number.                                          *)
Busier(previous, ticks, p, q) ==
    LET dp == saturating_sub(ticks[p], previous[p])
        dq == saturating_sub(ticks[q], previous[q])
    IN  \/ dp > dq
        \/ dp = dq /\ machine.rss[p[2]] > machine.rss[q[2]]
        \/ dp = dq /\ machine.rss[p[2]] = machine.rss[q[2]] /\ p[2] <= q[2]

TopProcess(previous, total, ticks) ==
    LET known == DOMAIN previous.ticks \cap DOMAIN ticks
        span == saturating_sub(total, previous.total)
        top == CHOOSE p \in known : \A q \in known : Busier(previous.ticks, ticks, p, q)
    IN  CASE span = 0 -> Unavailable
          [] span > 0 /\ known = {} -> Measuring
          [] OTHER -> Value((saturating_sub(ticks[top], previous.ticks[top]) * 100)
                            \div span)

top_process_required(used, top) ==
    \/ used.kind = "value" /\ used.n >= 85
    \/ top.kind = "value" /\ top.n >= 25

(* /proc/stat is read a second time, and then every process: ticks that    *)
(* pass in between are in one and not in the other.                        *)
ProcessSummary ==
    LET ticks == [m \in Present("pid") |-> machine.count[m]]
        top == IF process_cpu = None THEN Measuring
               ELSE TopProcess(process_cpu, CpuTimes.total, ticks)
    IN  /\ pc = "process" /\ pc' = "disks"
        /\ Read("pid")
        /\ IF Readable("stat") /\ Readable("proc")
           THEN /\ process_cpu' = [total |-> CpuTimes.total, ticks |-> ticks]
                /\ snapshot' = [snapshot EXCEPT
                       !.top = IF top_process_required(snapshot.cpu, top) THEN top
                                                                       ELSE Measuring]
           ELSE /\ process_cpu' = None
                /\ snapshot' = [snapshot EXCEPT !.top = Unavailable]
        /\ UNCHANGED <<cpu, disk, network, static_sample, alerts, machine,
                       log, renamed, events>>

DiskCounters == [m \in Present("disk") |-> machine.count[m]]

DiskRates(kept) ==
    /\ pc = "disks" /\ pc' = "network"
    /\ Read("disk")
    /\ \/ /\ Readable("block") /\ Readable("diskstats")
          /\ disk' = DiskCounters
          /\ snapshot' = [snapshot EXCEPT !.disk = RateAgainst(disk, DiskCounters)]
       \/ /\ ~(Readable("block") /\ Readable("diskstats"))
          /\ disk' = kept
          /\ snapshot' = [snapshot EXCEPT !.disk = Unavailable]
    /\ UNCHANGED <<cpu, network, process_cpu, static_sample, alerts,
                   machine, log, renamed, events>>

(* The same disk sampler when a failed reading leaves the old sample.      *)
ReadDisks_KeepsSample == DiskRates(disk)

ReadDisks == DiskRates(None)

-----------------------------------------------------------------------------
(* The network: counters, the address to reach the machine at, its route.  *)

(* "lo" counts only when there is nothing else.                            *)
Interfaces ==
    LET real_nics == {m \in Present("nic") : m[2] # Loopback}
    IN  IF real_nics = {} THEN Present("nic") ELSE real_nics

AccessAddress ==
    CASE ~Readable("addr") \/ Interfaces = {} -> "unavailable"
      [] Readable("addr") /\ \E m \in Interfaces : m[2] \in machine.addressed -> "address"
      [] OTHER -> "configuring"

SelectedDefaultRoute ==
    IF Readable("route") /\ <<"nic", machine.route>> \in Interfaces
    THEN machine.route ELSE None

NetworkState ==
    IF SelectedDefaultRoute # None /\ AccessAddress = "address"
    THEN "ready" ELSE "configuring"

NetworkErrorState(rate) ==
    CASE rate.kind = "measuring" -> ""
      [] rate.kind = "unavailable" -> "unavailable"
      [] rate.kind = "value" /\ rate.n > 10 -> "critical"
      [] rate.kind = "value" /\ rate.n \in 1..10 -> "warning"
      [] OTHER -> ""

NicRow(m, current) ==
    IF network = None \/ m \notin DOMAIN network THEN Measuring
    ELSE Value(saturating_sub(current[m], network[m]))

(* An interface may go away between its listing and the reading of its     *)
(* counters: it is in the list, with every counter 0.                      *)
NetworkRates(stored) ==
    /\ pc = "network" /\ pc' = "boot"
    /\ Read("nic")
    /\ \/ /\ ~Readable("net")
          /\ network' = None
          /\ snapshot' = [snapshot EXCEPT !.net = Unavailable, !.nics = <<>>,
                                          !.netstate = "unavailable"]
          /\ UNCHANGED <<machine, events>>
       \/ /\ Readable("net")
          /\ \E gone \in SUBSET (IF "nic" \in moving THEN Interfaces ELSE {}) :
               LET current == [m \in Interfaces |->
                                 IF m \in gone THEN 0 ELSE machine.count[m]]
               IN  /\ Cardinality(gone) <= events
                   /\ network' = IF stored THEN current ELSE None
                   /\ snapshot' = [snapshot EXCEPT
                          !.net = RateAgainst(network, current),
                          !.nics = [m \in Interfaces |-> NicRow(m, current)],
                          !.netstate = NetworkState]
                   /\ machine' = [machine EXCEPT !.present = @ \ gone]
                   /\ events' = events - Cardinality(gone)
    /\ UNCHANGED <<cpu, disk, process_cpu, static_sample, alerts, log, renamed>>

(* The same network sampler when the sample read is not stored.            *)
ReadNetwork_NeverStored == NetworkRates(FALSE)

ReadNetwork == NetworkRates(TRUE)

-----------------------------------------------------------------------------
(* The state files of the first boot and of sshd.                          *)

prepare_state_from_text(text) ==
    CASE text \in {"applied", "running", "failed"} -> text
      [] text = "absent" -> "pending"
      [] OTHER -> "unknown"

root_expansion_state_from_text(text) ==
    IF text \in {"expanded", "failed"} THEN text ELSE "unknown"

ssh_ready_state(key_state, process_state, listening_state) ==
    CASE key_state = "enabled" /\ process_state = "running"
                               /\ listening_state = "listening" -> "ready"
      [] key_state = "enabled" /\ "unavailable" \in {process_state, listening_state}
           -> "unavailable"
      [] key_state = "enabled" /\ "unavailable" \notin {process_state, listening_state}
                               /\ ~(process_state = "running" /\ listening_state = "listening")
           -> "starting"
      [] key_state = "disabled" -> "disabled"
      [] OTHER -> "unavailable"

BootStates ==
    /\ pc = "boot" /\ pc' = "alerts"
    /\ snapshot' = [snapshot EXCEPT
           !.prepare = prepare_state_from_text(machine.prepare),
           !.growth = root_expansion_state_from_text(machine.growth),
           !.ssh = ssh_ready_state(machine.keys,
                     IF Readable("proc") THEN machine.sshd ELSE "unavailable",
                     IF Readable("tcp") THEN machine.tcp22 ELSE "unavailable")]
    /\ UNCHANGED <<baselines, static_sample, alerts, machine, log, real,
                   counted, renamed, events>>

-----------------------------------------------------------------------------
(* /dev/kmsg.                                                              *)

Oldest == IF Len(log) > RingSize THEN Len(log) - RingSize + 1 ELSE 1
Alerting == {"error", "warning"}
LastOf_All(s, n) == s
LastOf(s, n) == SubSeq(s, saturating_sub(Len(s), n) + 1, Len(s))

(* The places of the alerts among the records from first to last.          *)
AlertsIn(records, first, last) ==
    LET upto[n \in Nat] == IF n = 0 THEN <<>>
                           ELSE IF records[first + n - 1] \in Alerting
                                THEN Append(upto[n - 1], first + n - 1)
                                ELSE upto[n - 1]
    IN  upto[saturating_sub(last + 1, first)]

(* A read fails when the records at the reader's place are gone.           *)
KernelAlerts(cleared) ==
    LET at == IF kmsg = None THEN Oldest ELSE kmsg
        failed == ~Readable("kmsg") \/ at < Oldest
        last == Min({Len(log), at + ReadLimit - 1})
    IN  /\ pc = "alerts" /\ pc' = "show"
        /\ kernel_alerts_unavailable' = failed
        /\ IF failed
           THEN /\ kmsg' = None
                /\ opened' = None
                /\ kernel_alerts' = cleared
           ELSE /\ kmsg' = last + 1
                /\ opened' = IF kmsg = None THEN Oldest ELSE opened
                /\ kernel_alerts' = LastOf(kernel_alerts \o AlertsIn(log, at, last), AlertLimit)
        /\ UNCHANGED <<baselines, static_sample, snapshot, machine, log, real,
                       counted, renamed, events>>

(* The same alert sampler when a failed reading leaves the old alerts.     *)
SampleKernelAlerts_Kept == KernelAlerts(kernel_alerts)

SampleKernelAlerts == KernelAlerts(<<>>)

AlertState ==
    LET kinds == {log[kernel_alerts[i]] : i \in DOMAIN kernel_alerts}
    IN  CASE kernel_alerts_unavailable -> "unavailable"
          [] ~kernel_alerts_unavailable /\ "error" \in kinds -> "error"
          [] ~kernel_alerts_unavailable /\ kinds = {"warning"} -> "warning"
          [] OTHER -> "none"

-----------------------------------------------------------------------------
(* The health line.                                                        *)

percent_state(percent, warning, critical) ==
    CASE percent.kind # "value" -> "unavailable"
      [] percent.kind = "value" /\ percent.n >= critical -> "critical"
      [] percent.kind = "value" /\ percent.n \in warning..(critical - 1) -> "warning"
      [] OTHER -> ""

Critical(d) ==
    \/ d.prepare = "failed" \/ d.growth = "failed"
    \/ d.ssh \in {"disabled", "unavailable"}
    \/ d.kernel = "error"
    \/ NetworkErrorState(d.net) = "critical"
    \/ percent_state(d.cpu, 85, 95) = "critical"

Warning(d) ==
    \/ d.prepare # "applied" \/ d.growth = "unknown" \/ d.ssh = "starting"
    \/ d.kernel = "warning"
    \/ percent_state(d.cpu, 85, 95) = "warning"

(* Memory, root, inode and thermal states enter as the processor's does.   *)
HealthState(d) ==
    CASE Critical(d) -> "critical"
      [] ~Critical(d) /\ Warning(d) -> "warning"
      [] ~Critical(d) /\ ~Warning(d) /\ d.cpu.kind # "value" -> "unavailable"
      [] OTHER -> "ok"

Show ==
    LET complete == [snapshot EXCEPT !.kernel = AlertState]
    IN  /\ pc = "show" /\ pc' = "static"
        /\ snapshot' = [complete EXCEPT !.health = HealthState(complete)]
        /\ UNCHANGED <<baselines, static_sample, alerts, machine, log, real,
                       counted, renamed, events>>

-----------------------------------------------------------------------------
(* The machine.  Whatever happens commutes with every read that does not   *)
(* look at it, so it happens just before a read that does; and the parts   *)
(* of the machine are read independently, so one part moves at a time.     *)

SeenBy(x) ==
    CASE x \in {"core", "stat"} -> {"cpu", "process"}
      [] x = "pid" -> {"cpu", "process"}
      [] x = "proc" -> {"process", "boot"}
      [] x \in {"disk", "block", "diskstats"} -> {"disks"}
      [] x \in {"nic", "net", "addr", "route"} -> {"network"}
      [] x \in {"files", "tcp"} -> {"boot"}
      [] x \in {"log", "kmsg"} -> {"alerts"}
      [] x = "hostname" -> {"static"}

Happens(x) ==
    /\ pc \in SeenBy(x)
    /\ UNCHANGED <<pc, baselines, static_sample, alerts, snapshot, counted, moving>>
Spend(x) == Happens(x) /\ x \in moving /\ events > 0 /\ events' = events - 1

Moves(m, n) ==
    /\ Spend(m[1])
    /\ machine' = [machine EXCEPT !.count[m] = @ + n]
    /\ real' = [real EXCEPT ![m] = @ + n]
    /\ UNCHANGED <<log, renamed>>

Work(m, n) == m \in machine.present /\ m[1] # "pid" /\ Moves(m, n)

(* A process runs on a processor: both meters move.                        *)
Run(p, c, n) ==
    /\ {p, c} \subseteq machine.present /\ p[1] = "pid" /\ c[1] = "core"
    /\ Spend("pid")
    /\ machine' = [machine EXCEPT !.count[p] = @ + n, !.count[c] = @ + n]
    /\ real' = [real EXCEPT ![p] = @ + n, ![c] = @ + n]
    /\ UNCHANGED <<log, renamed>>

Idle(c, n) ==
    /\ <<"core", c>> \in machine.present
    /\ Spend("core")
    /\ machine' = [machine EXCEPT !.idle[c] = @ + n]
    /\ UNCHANGED <<log, real, renamed>>

(* A device, a process or a processor goes away.                           *)
Leave(m) ==
    /\ m \in machine.present /\ m # <<"nic", Loopback>>
    /\ m[1] = "core" => Cardinality(Present("core")) > 1
    /\ Spend(m[1])
    /\ machine' = [machine EXCEPT !.present = @ \ {m}]
    /\ UNCHANGED <<log, real, renamed>>

(* Another of its name arrives: what it counts, it counted since.  A       *)
(* processor keeps its ticks.                                              *)
Arrive(m, n) ==
    LET from == IF m[1] = "core" THEN machine.count[m] ELSE n
    IN  /\ m \in Meters \ machine.present
        /\ Spend(m[1])
        /\ machine' = [machine EXCEPT !.present = @ \cup {m}, !.count[m] = from]
        /\ real' = [real EXCEPT ![m] = @ + (IF m[1] = "core" THEN 0 ELSE n)]
        /\ UNCHANGED <<log, renamed>>

Break(s) ==
    /\ s \notin machine.bad /\ Spend(s)
    /\ machine' = [machine EXCEPT !.bad = @ \cup {s}]
    /\ UNCHANGED <<log, real, renamed>>

Mend(s) ==
    /\ s \in machine.bad /\ Happens(s)
    /\ machine' = [machine EXCEPT !.bad = @ \ {s}]
    /\ UNCHANGED <<log, real, renamed, events>>

Log(p) ==
    /\ Spend("log")
    /\ log' = Append(log, p)
    /\ UNCHANGED <<machine, real, renamed>>

Rename ==
    /\ Spend("hostname")
    /\ machine' = [machine EXCEPT !.hostname = @ + 1]
    /\ renamed' = 0
    /\ UNCHANGED <<log, real>>

(* The boot writes its state files and sshd starts.                        *)
Progress ==
    /\ Spend("files")
    /\ \/ \E t \in PrepareTexts : machine' = [machine EXCEPT !.prepare = t]
       \/ \E t \in GrowthTexts : machine' = [machine EXCEPT !.growth = t]
       \/ \E k \in {"enabled", "disabled", "unavailable"} :
             machine' = [machine EXCEPT !.keys = k]
       \/ \E r \in {"running", "not-running"} : machine' = [machine EXCEPT !.sshd = r]
       \/ \E l \in {"listening", "not-listening"} :
             machine' = [machine EXCEPT !.tcp22 = l]
    /\ UNCHANGED <<log, real, renamed>>

Configure ==
    /\ Spend("nic")
    /\ \E a \in SUBSET Nics, r \in Nics \cup {None} :
           machine' = [machine EXCEPT !.addressed = a, !.route = r]
    /\ UNCHANGED <<log, real, renamed>>

-----------------------------------------------------------------------------
NothingRead ==
    [hostname |-> 0, cpu |-> Measuring, cores |-> <<>>, top |-> Measuring,
     disk |-> Measuring, net |-> Measuring, nics |-> <<>>, netstate |-> "configuring",
     prepare |-> "pending", growth |-> "unknown", ssh |-> "unavailable",
     kernel |-> "none", health |-> "warning"]

(* A machine that is up, before the first round; some of its files may be   *)
(* unreadable from the start.                                              *)
Init ==
    /\ pc = "static"
    /\ cpu = None /\ disk = None /\ network = None /\ process_cpu = None
    /\ static_sample = None
    /\ kernel_alerts = <<>> /\ kernel_alerts_unavailable = FALSE
    /\ kmsg = None /\ opened = None
    /\ snapshot = NothingRead
    /\ moving \in DOMAIN Budget /\ events = Budget[moving]
    /\ \E bad \in SUBSET (Sources \cap moving) :
       machine = [present |-> Meters, bad |-> bad, hostname |-> 0,
                  count |-> [m \in Meters |-> 1], idle |-> [c \in Cores |-> 1],
                  rss |-> [p \in Pids |-> 1],
                  prepare |-> "applied", growth |-> "expanded", keys |-> "enabled",
                  sshd |-> "running", tcp22 |-> "listening",
                  addressed |-> Nics \ {Loopback}, route |-> None]
    /\ log \in BootLogs
    /\ real = [m \in Meters |-> 0]
    /\ counted = {}
    /\ renamed = StaticAge + 1

Round == \/ StaticSample \/ CpuUsage \/ ProcessSummary \/ ReadDisks \/ ReadNetwork
         \/ BootStates \/ SampleKernelAlerts \/ Show

Machine ==
    \/ \E m \in Meters, n \in Loads : Work(m, n) \/ Arrive(m, n)
    \/ \E p \in MetersOf("pid"), c \in MetersOf("core"), n \in Loads : Run(p, c, n)
    \/ \E c \in Cores, n \in Loads : Idle(c, n)
    \/ \E m \in Meters : Leave(m)
    \/ \E s \in Sources : Break(s) \/ Mend(s)
    \/ \E p \in Priorities : Log(p)
    \/ Rename
    \/ Progress
    \/ Configure

Next == (Round /\ UNCHANGED moving) \/ Machine

(* The dashboard's loop never stops and waits for nothing.                 *)
Spec == Init /\ [][Next]_vars /\ WF_vars(Round /\ UNCHANGED moving)

-----------------------------------------------------------------------------
(* The sampler never holds more than its types allow: at most AlertLimit   *)
(* alerts, samples of the meters only, and a reader's place in the log.    *)
Texts == [kind : {"value", "measuring", "unavailable"}, n : Nat]
TypeOK ==
    /\ pc \in {"static", "cpu", "process", "disks", "network", "boot", "alerts", "show"}
    /\ disk = None \/ DOMAIN disk \subseteq MetersOf("disk")
    /\ network = None \/ DOMAIN network \subseteq MetersOf("nic")
    /\ process_cpu = None \/ DOMAIN process_cpu.ticks \subseteq MetersOf("pid")
    /\ cpu = None \/ Len(cpu.cores) \in 1..Cardinality(Cores)
    /\ static_sample = None \/ static_sample.age \in 1..StaticAge
    /\ Len(kernel_alerts) <= AlertLimit
    /\ \A i \in DOMAIN kernel_alerts : kernel_alerts[i] \in DOMAIN log
    /\ kmsg = None \/ kmsg \in 1..(Len(log) + 1)
    /\ {snapshot.cpu, snapshot.top, snapshot.disk, snapshot.net} \subseteq Texts
    /\ snapshot.health \in {"critical", "warning", "unavailable", "ok"}
    /\ moving \in DOMAIN Budget /\ events \in 0..Budget[moving]

(* Neither the rates nor the shares of all processors, of the busiest      *)
(* process and of each interface show more than what really moved since    *)
(* the sampler last looked, whatever was unplugged, plugged, reset or      *)
(* unreadable in between: saturating_sub over the names of both samples,   *)
(* and a failed reading drops the old sample.  The share of one processor  *)
(* keeps to that only while the same processors are up as at the reading   *)
(* before: samples of processors have no names, and are compared by place. *)
SpanOf(previous) == saturating_sub(CpuTimes.total, previous.total)
RatesNeverOverstate ==
    [][/\ pc = "cpu" /\ pc' # pc /\ snapshot'.cpu.kind = "value" =>
            snapshot'.cpu.n * SpanOf(cpu) <= 100 * Total(real, MetersOf("core"))
       /\ pc = "cpu" /\ pc' # pc /\ counted = Online =>
            \A i \in DOMAIN snapshot'.cores : snapshot'.cores[i].kind = "value" =>
                snapshot'.cores[i].n * Share(cpu.cores[i], CpuTimes.cores[i]).total
                    <= 100 * real[<<"core", CoreAt(Online, i)>>]
       /\ pc = "process" /\ pc' # pc /\ snapshot'.top.kind = "value" =>
            \E p \in MetersOf("pid") :
                snapshot'.top.n * SpanOf(process_cpu) <= 100 * real[p]
       /\ pc = "disks" /\ pc' # pc /\ snapshot'.disk.kind = "value" =>
            snapshot'.disk.n <= Total(real, MetersOf("disk"))
       /\ pc = "network" /\ pc' # pc =>
            /\ snapshot'.net.kind = "value" => snapshot'.net.n <= Total(real, MetersOf("nic"))
            /\ \A m \in DOMAIN snapshot'.nics : snapshot'.nics[m].n <= real[m]]_vars

(* The retained alerts are the latest AlertLimit alerts among the records  *)
(* read through the open descriptor, each once and in their order, however *)
(* often /dev/kmsg failed or overran the reader before.                    *)
RetainedAreTheLatest ==
    kmsg # None => kernel_alerts = LastOf(AlertsIn(log, opened, kmsg - 1), AlertLimit)

(* A host name that changed more than StaticAge rounds ago is on the       *)
(* screen (design.md 9.4: static fields are refreshed every 10 s).         *)
StaticIsRecent ==
    pc = "cpu" /\ renamed > StaticAge => snapshot.hostname = machine.hostname

(* Once everything is readable for good, the disk and network rates are    *)
(* numbers for good (a failed reading costs one "measuring", not more) and *)
(* an error among the last alerts the kernel keeps is on the screen.       *)
ErrorKept == \E i \in Range(LastOf(AlertsIn(log, Oldest, Len(log)), AlertLimit)) : log[i] = "error"
SettlesOnTheTruth ==
    <>[](machine.bad = {}) =>
        <>[](/\ snapshot.disk.kind = "value" /\ snapshot.net.kind = "value"
             /\ ErrorKept => snapshot.kernel = "error")
=============================================================================
