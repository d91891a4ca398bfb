----------------------------- MODULE SourceDownload -----------------------------
(* One job's download of a YouTube video: the metadata, then audio or sections    *)
(* through the proxy with its two kinds of retry, then the chain of providers     *)
(* that deliver a full file, two of them paid. Every answer of the network is a   *)
(* choice. Time is in minutes; bytes, money and prices are in small units.        *)
EXTENDS Naturals, Sequences

CONSTANTS
    Regions,    \* exits the proxy can be asked for; Home is the configured one
    Home,
    Initial,    \* minutes of the first attempt; retries get one minute more
    ByteLimit,  \* bytes one job may download
    Allowance,  \* what one download may cost
    Prices      \* the cap of one run of each paid actor, in the order they are tried

VARIABLES
    at,     \* what the job does now
    op,     \* the operation that goes through the proxy
    net,    \* its attempt
    load,   \* the job: route, bytes, region errors, the providers left
    paid    \* the paid runs
dvars == <<at, op, net, load, paid>>

Ends == {"idle", "done", "none", "geo", "budget"}
Smallest(a, b) == IF a <= b THEN a ELSE b
Overall == Initial + 1
FirstTry(route) == [attempt |-> 1, country |-> route, region |-> FALSE, transport |-> FALSE,
                    clock |-> 0, until |-> Initial, error |-> "none", allowed |-> {}]
NoLoad == [kind |-> "none", route |-> Home, bytes |-> 0, timed |-> FALSE,
           prior |-> FALSE, geo |-> FALSE, rest |-> <<>>, tries |-> 0, regional |-> FALSE]
NoRuns == [left |-> Allowance, owed |-> 0, candidate |-> 1, cap |-> 0, cost |-> 0, started |-> 0, ended |-> TRUE]
StartIn(stage) == at = stage /\ op = "none" /\ net = FirstTry(Home) /\ load = NoLoad /\ paid = NoRuns
Init == StartIn("idle")
Gone == StartIn("none")

\* Proxy, relay, bounded pool, then the data centre; without a proxy the configured
\* one of them comes first.
ProviderOrder(proxy, skip, primary) ==
    (IF proxy /\ ~skip THEN <<"proxy">> ELSE <<>>)
    \o (IF proxy \/ primary = "relay" THEN <<"relay", "pool", "direct">>
        ELSE IF primary = "pool" THEN <<"pool", "relay", "direct">> ELSE <<"direct", "relay", "pool">>)
Operate(name) == at' = "extract" /\ op' = name /\ net' = FirstTry(load.route)
\* An operation is over: nothing of its attempt is read again.
Over == op' = "none" /\ net' = FirstTry(Home)

(***************************************************************************)
(* The proxy: one attempt.                                                 *)
(***************************************************************************)
Begin(kind) ==
    /\ at = "idle" /\ UNCHANGED paid
    /\ \/ kind = "analysis" /\ Operate("metadata") /\ load' = [load EXCEPT !.kind = kind]
       \/ kind = "clips" /\ Operate("section") /\ load' = [load EXCEPT !.kind = kind]
       \/ /\ kind = "full" /\ at' = "next" /\ UNCHANGED <<op, net>>
          /\ \E proxy \in BOOLEAN, primary \in {"relay", "pool", "direct"} :
               load' = [load EXCEPT !.kind = kind, !.rest = ProviderOrder(proxy, FALSE, primary)]
Fails(error, minute) ==
    /\ at' = "judge"
    /\ \E allowed \in (IF error = "geo" THEN SUBSET Regions ELSE {{}}) :
         net' = [net EXCEPT !.clock = minute, !.error = error, !.allowed = allowed]
\* Running out of time is an error of the transport.
Errors(kinds, late, minute) == IF minute = net.until THEN {late} ELSE kinds
\* A route that gave metadata is kept, whatever becomes of the media.
Extract ==
    /\ at = "extract" /\ UNCHANGED <<op, paid>>
    /\ \E minute \in net.clock..net.until :
         \/ /\ minute < net.until \/ net.clock = net.until
            /\ at' = (IF op = "metadata" THEN "measured" ELSE "media") /\ net' = [net EXCEPT !.clock = minute]
            /\ load' = [load EXCEPT !.route = net.country, !.timed = @ \/ op = "metadata"]
         \/ \E error \in Errors({"geo", "transient", "other"}, "transient", minute) : Fails(error, minute) /\ UNCHANGED load
Arrives(minute) == at' = "done" /\ net' = [net EXCEPT !.clock = minute]
\* Bytes are counted of attempts that fail too; the limit ends the job.
Transfer(errors, late) ==
    \E minute \in net.clock..net.until, bytes \in 1..2 :
        /\ load' = [load EXCEPT !.bytes = @ + bytes]
        /\ IF load.bytes + bytes > ByteLimit THEN Fails("budget", minute)
           ELSE \/ minute < net.until /\ Arrives(minute)
                \/ \E error \in Errors(errors, late, minute) : Fails(error, minute)
Media ==
    /\ at = "media" /\ UNCHANGED <<op, paid>>
    /\ \/ Transfer({"transient", "other"}, "transient")
       \* Formats without timed fragments are refused before any media.
       \/ op = "section" /\ Fails("partial", net.clock) /\ UNCHANGED load
       \* 403 of the audio: a second format of the same answer, if there is one.
       \/ /\ op = "audio" /\ UNCHANGED load
          /\ (at' = "hls" /\ UNCHANGED net) \/ Fails("forbidden", net.clock)
\* Whatever fails there is forbidden audio; a transport error under it still counts.
Hls == at = "hls" /\ Transfer({"forbidden", "forbidden transport"}, "forbidden transport") /\ UNCHANGED <<op, paid>>

Transport == net.error \in {"transient", "forbidden transport"}
Again(country, until) ==
    /\ at' = "extract" /\ UNCHANGED <<op, load, paid>>
    /\ net' = [net EXCEPT !.attempt = @ + 1, !.country = country, !.until = until, !.error = "none", !.allowed = {},
                          !.region = @ \/ net.error = "geo", !.transport = @ \/ net.error # "geo"]
CanSwitch == net.error = "geo" /\ ~net.region /\ net.allowed \ {net.country} # {}
SwitchRegion ==
    /\ at = "judge" /\ net.clock < Overall /\ CanSwitch
    /\ \E country \in net.allowed \ {net.country} : Again(country, Overall)
\* Variant: a new connection for every error of the transport.
NewConnectionAlways == at = "judge" /\ net.clock < Overall /\ Transport /\ Again(net.country, Smallest(Overall, net.clock + 1))
NewConnection ==
    /\ at = "judge" /\ net.clock < Overall /\ Transport /\ ~net.transport
    /\ Again(net.country, Smallest(Overall, net.clock + 1))
Stuck == at = "judge" /\ (net.clock >= Overall \/ ~(CanSwitch \/ (Transport /\ ~net.transport)))
Geo == net.error = "geo"

(***************************************************************************)
(* What follows a failed operation.                                        *)
(***************************************************************************)
OverBudget == at = "judge" /\ net.error = "budget" /\ at' = "budget" /\ Over /\ UNCHANGED <<load, paid>>
\* Metadata: the other source of it, or none. The region error is kept for the end.
MetadataFails ==
    /\ Stuck /\ op = "metadata" /\ net.error # "budget" /\ at' = "measured"
    /\ \E timed \in BOOLEAN :
         load' = [load EXCEPT !.timed = timed, !.prior = ~timed /\ Geo, !.regional = @ \/ (~timed /\ Geo)]
    /\ Over /\ UNCHANGED paid
Measured == at = "measured" /\ Operate("audio") /\ UNCHANGED <<load, paid>>
Forbidden == net.error \in {"forbidden", "forbidden transport"}
\* Forbidden audio of a known length: the whole of it as one section.
AudioFails ==
    /\ Stuck /\ op = "audio" /\ net.error # "budget"
    /\ IF Forbidden /\ load.timed THEN Operate("section") /\ UNCHANGED <<load, paid>>
       ELSE /\ at' = "next" /\ Over /\ UNCHANGED paid
            /\ load' = [load EXCEPT !.rest = ProviderOrder(TRUE, TRUE, "direct"), !.prior = @ \/ Geo, !.regional = @ \/ Geo]
\* A section for a clip tries the proxy again only where nothing could be sliced.
SectionFails ==
    /\ Stuck /\ op = "section" /\ net.error # "budget" /\ at' = "next" /\ Over /\ UNCHANGED paid
    /\ load' = [load EXCEPT !.rest = ProviderOrder(TRUE, load.kind = "analysis" \/ net.error # "partial", "direct"),
                            !.prior = @ \/ Geo, !.regional = @ \/ Geo]
FullFails ==
    /\ Stuck /\ op = "full" /\ net.error # "budget" /\ at' = "next" /\ Over /\ UNCHANGED paid
    /\ load' = [load EXCEPT !.geo = @ \/ Geo, !.regional = @ \/ Geo]

(***************************************************************************)
(* The chain.                                                              *)
(***************************************************************************)
\* Variant: a region error counts only of the last provider.
EndChainLast == at' = (IF load.geo THEN "geo" ELSE "none") /\ UNCHANGED <<op, net, load, paid>>
\* Nothing was delivered: a region error met on the way is what the user is told.
EndChain == at' = (IF load.geo \/ load.prior THEN "geo" ELSE "none") /\ UNCHANGED <<op, net, load, paid>>
NextProvider ==
    /\ at = "next"
    /\ \/ load.rest = <<>> /\ EndChain
       \/ /\ load.rest # <<>>
          /\ load' = [load EXCEPT !.rest = Tail(@), !.tries = 0]
          /\ \/ /\ Head(load.rest) = "proxy" /\ at' = "extract" /\ op' = "full"
                /\ net' = FirstTry(load.route) /\ UNCHANGED paid
             \/ /\ Head(load.rest) # "proxy" /\ at' = Head(load.rest) /\ UNCHANGED <<op, net>>
                /\ paid' = (IF Head(load.rest) = "pool" THEN [paid EXCEPT !.left = Allowance, !.candidate = 1] ELSE paid)
             \* No key for it.
             \/ Head(load.rest) \in {"relay", "pool"} /\ at' = "next" /\ UNCHANGED <<op, net, paid>>
\* A file another provider delivered counts by its size.
Delivered ==
    \E bytes \in 1..2 :
        /\ load' = [load EXCEPT !.bytes = @ + bytes]
        /\ at' = IF load.bytes + bytes > ByteLimit THEN "budget" ELSE "done"
Relay ==
    /\ at = "relay" /\ UNCHANGED <<op, net, paid>>
    /\ Delivered \/ (at' = "next" /\ UNCHANGED load)
\* yt-dlp from the data centre: three attempts, but a region does not change.
Direct ==
    /\ at = "direct" /\ UNCHANGED <<op, net, paid>>
    /\ \/ Delivered
       \/ at' = "next" /\ load' = [load EXCEPT !.geo = TRUE, !.regional = TRUE]
       \/ /\ load' = [load EXCEPT !.tries = @ + 1]
          /\ at' = IF load.tries = 2 THEN "next" ELSE "direct"

(***************************************************************************)
(* The paid pool: one run after another, each capped by what is left.      *)
(***************************************************************************)
PoolFails(permanent) ==
    IF permanent THEN EndChain ELSE at' = "next" /\ UNCHANGED <<op, net, load, paid>>
Submit ==
    LET cap == Smallest(Prices[paid.candidate], paid.left)
    IN /\ at = "pool"
       /\ \/ cap = 0 /\ PoolFails(FALSE)
          \* Not even asked: its length or its storage is not known.
          \/ cap > 0 /\ at' = "billed" /\ paid' = [paid EXCEPT !.cap = 0] /\ UNCHANGED <<op, net, load>>
          \* One submission, whatever its answer; without one the cap is reserved.
          \/ /\ cap > 0 /\ UNCHANGED <<op, net, load>>
             /\ \E answered \in BOOLEAN :
                  /\ at' = IF answered THEN "running" ELSE "billed"
                  /\ paid' = [paid EXCEPT !.cap = cap, !.owed = @ + cap, !.started = @ + 1, !.ended = ~answered]
\* The run ends at some cost up to its cap, or the job stops waiting and aborts it.
RunEnds ==
    /\ at = "running" /\ UNCHANGED <<op, net>>
    /\ \/ \E cost \in 0..paid.cap :
            /\ paid' = [paid EXCEPT !.cost = cost, !.owed = @ - (paid.cap - cost), !.ended = TRUE]
            /\ Delivered \/ (at' = "billing" /\ UNCHANGED load)
       \/ at' = "billed" /\ paid' = [paid EXCEPT !.ended = TRUE] /\ UNCHANGED load
\* Variant: unknown billing counts nothing.
BillFree == at = "billing" /\ at' = "billed" /\ (\E spent \in {0, paid.cost} : paid' = [paid EXCEPT !.cap = spent]) /\ UNCHANGED <<op, net, load>>
\* The events of the run say what it cost; where they do not, all of the cap is gone.
Bill ==
    /\ at = "billing" /\ at' = "billed" /\ UNCHANGED <<op, net, load>>
    /\ \E spent \in {paid.cost, paid.cap} : paid' = [paid EXCEPT !.cap = spent]
NextActor ==
    /\ at = "billed"
    /\ \/ /\ paid.candidate < Len(Prices) /\ at' = "pool" /\ UNCHANGED <<op, net, load>>
          /\ paid' = [paid EXCEPT !.left = @ - paid.cap, !.candidate = @ + 1]
       \/ paid.candidate = Len(Prices) /\ PoolFails(FALSE)
       \/ PoolFails(TRUE)

Next ==
    \/ \E kind \in {"analysis", "clips", "full"} : Begin(kind)
    \/ Extract \/ Media \/ Hls \/ SwitchRegion \/ NewConnection
    \/ OverBudget \/ MetadataFails \/ Measured \/ AudioFails \/ SectionFails \/ FullFails
    \/ NextProvider \/ Relay \/ Direct \/ Submit \/ RunEnds \/ Bill \/ NextActor
Spec == Init /\ [][Next]_dvars

(***************************************************************************)
(* Properties                                                              *)
(***************************************************************************)
TypeOK ==
    /\ op \in {"none", "metadata", "audio", "section", "full"} /\ load.route \in Regions
    /\ net.country \in Regions /\ net.clock <= net.until /\ paid.candidate \in 1..Len(Prices)
\* "One transport and one region retry stay inside the initial budget plus 60s"
\* (youtube_proxy.py:448). Once the bytes of the job are used up nothing more is
\* downloaded, by whatever provider. What the paid runs of a download can still cost
\* never exceeds its allowance, even where an answer or a bill is lost, and none is
\* left running. And when nothing was delivered, a region error that any step ended
\* with is not lost among the errors of the others.
DownloadHolds ==
    /\ net.attempt <= 3 /\ net.clock <= Overall
    /\ load.bytes > ByteLimit => at = "budget" \/ (at = "judge" /\ net.error = "budget")
    /\ at = "done" => load.bytes <= ByteLimit
    /\ paid.owed <= Allowance /\ paid.started <= Len(Prices)
    /\ at # "running" => paid.ended
    /\ at = "none" => ~load.regional
    /\ at = "geo" => load.regional
=============================================================================
