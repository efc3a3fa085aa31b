---------------------------- MODULE MountOptions ----------------------------
(***************************************************************************)
(* The command line of blobfuse, from the mount flags of a volume to the   *)
(* arguments that blobfuse-proxy runs it with: the options of an inline    *)
(* volume are checked and merged, a distributed cache that the node's      *)
(* blobfuse2 does not have is replaced by a local one, and the defaults of *)
(* the driver and of the proxy are added.                                  *)
(*                                                                         *)
(* An option is one text: spaces, a flag and, after "=", a value.  What    *)
(* the code asks of texts is what they begin with and what is in them.     *)
(***************************************************************************)
EXTENDS Naturals, Sequences, FiniteSets, SequencesExt

CONSTANTS
    UserOptions,        \* options that a user may give
    AllowedInline,      \* the ones that SanitizeMountOptions lets pass
    Begins,             \* <<text, start>>: a text begins with a shorter one
    Within,             \* <<text, part>>: a text has another one further on
    MaxOptions          \* bound: mount flags and inline options of a request

\* value: <<>> without "=", otherwise the parts of the value; padded: there are
\* spaces before the flag.
ASSUME OptionsAssumption ==
    /\ UserOptions \subseteq [flag : STRING, value : Seq(STRING), padded : BOOLEAN]
    /\ AllowedInline \subseteq {o \in UserOptions : ~o.padded}
    /\ MaxOptions \in Nat

VARIABLES
    setting,    \* the volume and the node
    flags,      \* mount flags of the request
    given,      \* the options before the driver adds its own
    opts,       \* the options so far
    stage,      \* next step, "done" or "rejected"
    next,       \* loop of fallbackToLocalBlockCache: position of the next option
    fallbackOptions, includedLocalOptions, blockCacheEnabled    \* its locals

request == <<setting, flags>>
loop == <<next, fallbackOptions, includedLocalOptions, blockCacheEnabled>>
vars == <<request, given, opts, stage, loop>>

\* inline: up to n options of an ephemeral (inline) volume; group: volumeMountGroup of
\* the request; fuse2: protocol "fuse2"; v2: the proxy uses blobfuse2 by
\* default; hns: the volume wants a hierarchical namespace; binary: what
\* "blobfuse2 mount --help" says.
Settings(n) ==
    {s \in [ephemeral : BOOLEAN, inline : SeqOf(UserOptions, n),
            group : {"none", "valid", "invalid"}, hns : BOOLEAN,
            proxy : BOOLEAN, fuse2 : BOOLEAN, v2 : BOOLEAN,
            binary : {"supports", "lacks", "fails"}] : s.ephemeral \/ s.inline = <<>>}

Init ==
    /\ flags \in SeqOf(UserOptions, MaxOptions)
    /\ setting \in Settings(MaxOptions - Len(flags))
    /\ given = <<>>
    /\ opts = <<>>
    /\ stage = "collect"
    /\ next = 1 /\ fallbackOptions = <<>>
    /\ includedLocalOptions = {} /\ blockCacheEnabled = FALSE
-----------------------------------------------------------------------------
HasPrefix(s, p) == s = p \/ <<s, p>> \in Begins
HasText(s, p) == HasPrefix(s, p) \/ <<s, p>> \in Within

Opt(flag, value) == [flag |-> flag, value |-> value, padded |-> FALSE]
Driver(flag) == Opt(flag, <<"driver">>)
FlagsIn(s) == {s[i].flag : i \in DOMAIN s}

\* Some option of the list has the text in it.
Mentions(o, p) == HasText(o.flag, p) \/ \E i \in DOMAIN o.value : HasText(o.value[i], p)
InArgs(s, p) == \E i \in DOMAIN s : Mentions(s[i], p)

Discovery == "--distributed-cache-discovery-endpoint"
DNSServer == "--distributed-cache-dns-server"

Translatable ==
    {"--distributed-cache-block-size", "--distributed-cache-node-memory",
     "--distributed-cache-prefetch", "--distributed-cache-parallelism"}

distributedToBlockCacheOptions ==
    [f \in Translatable |->
        CASE f = "--distributed-cache-block-size" -> "--block-cache-block-size"
          [] f = "--distributed-cache-node-memory" -> "--block-cache-pool-size"
          [] f = "--distributed-cache-prefetch" -> "--block-cache-prefetch"
          [] f = "--distributed-cache-parallelism" -> "--block-cache-parallelism"]

LocalFlags == {distributedToBlockCacheOptions[f] : f \in Translatable}

DefaultFlags ==
    {"--pre-mount-validate", "--use-https", "--tmp-path", "--container-name",
     "--cancel-list-on-mount-seconds", "--empty-dir-check"}

ProxyFlags == {"--ignore-open-flags", "--disable-version-check"}

telemetryTagPrefix == "blobpartner-csi/"

\* Every flag there is: the user's, and those that the code itself writes.
Flags ==
    {o.flag : o \in UserOptions} \cup Translatable \cup LocalFlags \cup DefaultFlags
    \cup ProxyFlags \cup {Discovery, DNSServer, "--block-cache", "--telemetry",
                          "--use-adls", "-o gid"}

Distributed == {f \in Flags : HasPrefix(f, "--distributed-cache-")}

\* What is so of the texts that the code itself writes.
ASSUME TextAssumption ==
    /\ Translatable \cup {Discovery, DNSServer} \subseteq Distributed
    /\ (LocalFlags \cup DefaultFlags \cup ProxyFlags \cup {"--block-cache", "--telemetry"})
          \cap Distributed = {}
    /\ \A text \in ProxyFlags \cup {"driver"}, part \in {"--telemetry", telemetryTagPrefix} :
          ~HasText(text, part)

\* A set of both lists, in some fixed order.
JoinMountOptions(s, u) == SetToSeq(ToSet(s) \cup ToSet(u))

SanitizeMountOptions(s) == ToSet(s) \subseteq AllowedInline

\* The "=" goes with the text of the flag here.
checkGidPresentInMountFlags(s) == InArgs(s, "gid=")

AddsGroup == setting.group # "none" /\ ~checkGidPresentInMountFlags(flags)

Acceptable ==
    SanitizeMountOptions(setting.inline) /\ (AddsGroup => setting.group = "valid")

\* Inline options are merged; the group is added unless the flags have one.
CollectOptions ==
    /\ stage = "collect"
    /\ Acceptable
    /\ LET merged == IF setting.ephemeral THEN JoinMountOptions(flags, setting.inline)
                     ELSE flags
           adls == IF setting.hns
                   THEN JoinMountOptions(merged, <<Opt("--use-adls", <<"true">>)>>)
                   ELSE merged
       IN given' = IF AddsGroup THEN Append(adls, Driver("-o gid")) ELSE adls
    /\ opts' = given'
    /\ stage' = "cache"
    /\ UNCHANGED <<request, loop>>

RejectOptions ==
    /\ stage = "collect"
    /\ ~Acceptable
    /\ stage' = "rejected"
    /\ UNCHANGED <<request, given, opts, loop>>

hasDistributedCacheMountOptions(s) == FlagsIn(s) \cap Distributed # {}

\* Both the proxy and the driver ask the binary, if they would mount with it.
UsesBlobfuse2 == setting.fuse2 \/ (setting.proxy /\ setting.v2)

\* Mutant: the probe only asks what the binary can do.
SupportedByBinary == setting.binary = "supports"

isDistributedCacheSupported == UsesBlobfuse2 /\ setting.binary = "supports"

\* The options stay as they are.
KeepCache ==
    /\ stage = "cache"
    /\ ~hasDistributedCacheMountOptions(opts) \/ isDistributedCacheSupported
    /\ stage' = "defaults"
    /\ UNCHANGED <<request, given, opts, loop>>

\* fallbackToLocalBlockCache, up to its second loop: which local options there are.
FallBack ==
    /\ stage = "cache"
    /\ hasDistributedCacheMountOptions(opts) /\ ~isDistributedCacheSupported
    /\ includedLocalOptions' = FlagsIn(opts) \ Distributed
    /\ fallbackOptions' = <<>> /\ blockCacheEnabled' = FALSE /\ next' = 1
    /\ stage' = "fallback"
    /\ UNCHANGED <<request, given, opts>>

\* The loop is at an option, and goes on to the next one.
AtOption ==
    /\ stage = "fallback" /\ next <= Len(opts)
    /\ next' = next + 1
    /\ UNCHANGED <<request, given, opts, stage>>

\* "--block-cache" is made "true", once.
EnableBlockCache ==
    /\ AtOption
    /\ opts[next].flag = "--block-cache"
    /\ fallbackOptions' = IF blockCacheEnabled THEN fallbackOptions
                          ELSE Append(fallbackOptions, Opt("--block-cache", <<"true">>))
    /\ blockCacheEnabled' = TRUE
    /\ UNCHANGED includedLocalOptions

KeepOption ==
    /\ AtOption
    /\ opts[next].flag \notin Distributed \cup {"--block-cache"}
    /\ fallbackOptions' = Append(fallbackOptions, opts[next])
    /\ UNCHANGED <<includedLocalOptions, blockCacheEnabled>>

\* Mutant: a translated option does not look for one that the user gave.
TranslateAlways(o) == o.flag \in Translatable /\ o.value \notin {<<>>, <<"">>}

\* There is a local option to give the value to, and none has been given.
CanTranslate(o) ==
    /\ o.flag \in Translatable /\ o.value \notin {<<>>, <<"">>}
    /\ distributedToBlockCacheOptions[o.flag] \notin includedLocalOptions

TranslateOption ==
    /\ AtOption
    /\ opts[next].flag \in Distributed
    /\ LET o == opts[next]
           localFlag == distributedToBlockCacheOptions[o.flag]
       IN IF CanTranslate(o)
          THEN /\ fallbackOptions' = Append(fallbackOptions, Opt(localFlag, o.value))
               /\ includedLocalOptions' = includedLocalOptions \cup {localFlag}
          ELSE UNCHANGED <<fallbackOptions, includedLocalOptions>>
    /\ UNCHANGED blockCacheEnabled

EndFallback ==
    /\ stage = "fallback" /\ next > Len(opts)
    /\ opts' = IF blockCacheEnabled THEN fallbackOptions
               ELSE Append(fallbackOptions, Opt("--block-cache", <<"true">>))
    /\ stage' = "defaults"
    /\ UNCHANGED <<request, given, loop>>

\* The defaults follow in any order, a flag that a given one begins with left
\* out; those of the file cache are not for a distributed cache, which gets a
\* name server.
appendDefaultMountOptions(s) ==
    LET included == {k \in DefaultFlags :
                        \E i \in DOMAIN s : ~s[i].padded /\ HasPrefix(s[i].flag, k)}
        wanted == IF Discovery \in FlagsIn(s)
                  THEN (DefaultFlags \ {"--tmp-path", "--empty-dir-check"})
                       \cup ({DNSServer} \ FlagsIn(s))
                  ELSE DefaultFlags
    IN s \o SetToSeq({Driver(f) : f \in wanted \ included})

AddDefaults ==
    /\ stage = "defaults"
    /\ opts' = appendDefaultMountOptions(opts)
    /\ stage' = IF setting.proxy THEN "proxy" ELSE "done"
    /\ UNCHANGED <<request, given, loop>>

\* The tag is put before the user's first value, unless there is one with it.
addTelemetryTagToArgs(s) ==
    LET valued == {i \in DOMAIN s : s[i].flag = "--telemetry" /\ s[i].value # <<>>}
    IN IF ~InArgs(s, "--telemetry") THEN Append(s, Driver("--telemetry"))
       ELSE IF InArgs(s, telemetryTagPrefix) \/ valued = {} THEN s
       ELSE [s EXCEPT ![Min(valued)].value = <<"driver">> \o @]

MountAzureBlob ==
    /\ stage = "proxy"
    /\ LET missing == {f \in ProxyFlags : ~InArgs(opts, f)}
       IN opts' = IF UsesBlobfuse2
                  THEN addTelemetryTagToArgs(opts \o SetToSeq({Driver(f) : f \in missing}))
                  ELSE opts
    /\ stage' = "done"
    /\ UNCHANGED <<request, given, loop>>

Next ==
    \/ CollectOptions \/ RejectOptions \/ KeepCache \/ FallBack
    \/ EnableBlockCache \/ KeepOption \/ TranslateOption \/ EndFallback
    \/ AddDefaults \/ MountAzureBlob

Spec == Init /\ [][Next]_vars
-----------------------------------------------------------------------------
\* What the list should be, said flag by flag and without the order of steps.
RunsBlobfuse2 == setting.fuse2 \/ (setting.proxy /\ setting.v2)
CanDistribute == RunsBlobfuse2 /\ setting.binary = "supports"
FellBack == FlagsIn(given) \cap Distributed # {} /\ ~CanDistribute
Clustered == Discovery \in FlagsIn(given) /\ CanDistribute

\* The elements of s at some positions, in the order of s.
Nth(positions, n) ==
    CHOOSE i \in positions : Cardinality({j \in positions : j <= i}) = n
At(s, positions) ==
    [n \in 1..Cardinality(positions) |-> s[Nth(positions, n)]]

Of(s, flag) == {i \in DOMAIN s : s[i].flag = flag}
OfFlag(s, flag) == At(s, Of(s, flag))

\* The user's options with a value that stand for the local flag.
StandIns(s, flag) ==
    {i \in DOMAIN s : /\ s[i].flag \in Translatable
                      /\ distributedToBlockCacheOptions[s[i].flag] = flag
                      /\ s[i].value \notin {<<>>, <<"">>}}

\* Of each flag: what the user gave or, without the distributed cache, what the
\* first option with a value gave to the local flag that it stands for.
Cached(flag) ==
    LET own == OfFlag(given, flag)
        standIns == StandIns(given, flag)
    IN IF FellBack /\ flag \in Distributed THEN <<>>
       ELSE IF FellBack /\ flag = "--block-cache" THEN <<Opt(flag, <<"true">>)>>
       ELSE IF FellBack /\ own = <<>> /\ standIns # {}
            THEN <<Opt(flag, given[Min(standIns)].value)>>
       ELSE own

\* The driver's own value is for a flag that nobody gave, nor a longer one.
DriverDefault(flag) ==
    \/ /\ flag \in DefaultFlags
       /\ Clustered => flag \notin {"--tmp-path", "--empty-dir-check"}
       /\ ~\E f \in Flags : /\ HasPrefix(f, flag)
                            /\ \E n \in DOMAIN Cached(f) : ~Cached(f)[n].padded
    \/ flag = DNSServer /\ Clustered /\ Cached(flag) = <<>>
Driven(flag) ==
    IF DriverDefault(flag) THEN Append(Cached(flag), Driver(flag)) ELSE Cached(flag)

\* So is the proxy's, for a blobfuse2 and for a flag that is in none of the options.
Mentioned(p) == \E f \in Flags : \E n \in DOMAIN Driven(f) : Mentions(Driven(f)[n], p)
FirstTagged(s) ==
    [n \in DOMAIN s |->
        IF s[n].value # <<>> /\ \A m \in DOMAIN s : m < n => s[m].value = <<>>
        THEN [s[n] EXCEPT !.value = <<"driver">> \o @] ELSE s[n]]
Promised(flag) ==
    IF ~(setting.proxy /\ RunsBlobfuse2) \/ flag \notin ProxyFlags \cup {"--telemetry"}
    THEN Driven(flag)
    ELSE IF ~Mentioned(flag) THEN Append(Driven(flag), Driver(flag))
    ELSE IF flag = "--telemetry" /\ ~Mentioned(telemetryTagPrefix)
         THEN FirstTagged(Driven(flag))
    ELSE Driven(flag)

\* NodeStageVolume and the proxy: whatever mix of options, inline options and
\* binaries, each flag reaches blobfuse as its user gave it; without one, a
\* dropped distributed option gives its value to the local flag it stands for,
\* and the driver's default is used once if this kind of mount has one.
ArgsAsPromised ==
    stage = "done" =>
        \A flag \in Flags \cup FlagsIn(opts) : OfFlag(opts, flag) = Promised(flag)

\* isDistributedCacheSupported and fallbackToLocalBlockCache: the binary that
\* is run is never given a distributed cache option it has not said it has,
\* and a volume that asked for a distributed cache always has some cache.
DistributedOnlyWhereSupported ==
    stage = "done" =>
        /\ FlagsIn(opts) \cap Distributed # {} => CanDistribute
        /\ FlagsIn(given) \cap Distributed # {} =>
              \/ FlagsIn(given) \cap Distributed \subseteq FlagsIn(opts)
              \/ Opt("--block-cache", <<"true">>) \in ToSet(opts)
=============================================================================
