---------------------------- MODULE RuntimeBuild ----------------------------
(* From a profile to runtime.yaml: crates/nova-core/src/config_gen.rs with       *)
(* merge.rs, chain.rs, script.rs and tun.rs, called by apply_enhancers and       *)
(* build_runtime_from_files.  One step per stage of the build, so that what each *)
(* stage may undo of an earlier one can be asked.  No stage waits: the steps of  *)
(* one build follow each other.                                                  *)
(*                                                                               *)
(* A document is a tree of mappings, lists and scalars.  A script is whatever it *)
(* returns: it sees everything and may answer anything.                          *)
EXTENDS Integers, Sequences, Functions

CONSTANTS
  Documents,       \* profiles, as they parse
  Chains,          \* enabled enhancers, in order: [kind, patch] or [kind, returns]
  SettingsValues,  \* what AppSettings::to_overrides hands over
  KeyOrder,        \* how a mapping lists the keys whose order can matter
  Splicing         \* prepend-X and append-X -> [list |-> X, front |-> BOOLEAN]

ControlKeys == {"mixed-port", "external-controller", "secret", "mode", "allow-lan", "ipv6",
                "log-level"}

VARIABLES
  stage, doc, chain, settings,
  profile,         \* ghosts: the profile, the document after the enhancers
  enhanced

buildVars == <<stage, doc, chain, settings, profile, enhanced>>

(********************************* documents *********************************)

Scalar(x) == [scalar |-> x]
List(s)   == [items |-> s]
Map(f)    == [entries |-> f]
Null      == [null |-> "null"]          \* null, or nothing there

IsMap(x)  == "entries" \in DOMAIN x
IsList(x) == "items" \in DOMAIN x
On        == Scalar("true")
Off       == Scalar("false")

In(m, k)     == IF IsMap(m) /\ k \in DOMAIN m.entries THEN m.entries[k] ELSE Null

\* TLC's :> and @@, spelt out for the provers.
Entry(k, x)   == [key \in {k} |-> x]
Over(f, g)    == [k \in DOMAIN f \cup DOMAIN g |-> IF k \in DOMAIN f THEN f[k] ELSE g[k]]
With(m, f)    == Map(Over(f, m.entries))      \* insert
Lacking(m, f) == Map(Over(m.entries, f))      \* entry.or_insert
IfMap(x, y)  == IF IsMap(x) THEN y ELSE x

\* What build_runtime_config can rely on in RuntimeOverrides.  No key of its own is
\* written with a prefix.
ASSUME SettingsAreShaped ==
  \A s \in SettingsValues :
    /\ DOMAIN s.control = ControlKeys
    /\ DOMAIN s.interface \subseteq {"interface-name"}
    /\ "scalar" \in DOMAIN s.dns["enhanced-mode"]
    /\ {"listen", "ipv6", "prefer-h3", "enhanced-mode", "fake-ip-range",
        "fake-ip-filter-mode"} \subseteq DOMAIN s.dns
    /\ DOMAIN Splicing \cap (DOMAIN s.dns \cup DOMAIN s.dnsChoices \cup {"enable"}) = {}

\* What a parsed document is: its lists are sequences.
IsSequence(s) == Len(s) \in Nat /\ s = [i \in 1 .. Len(s) |-> s[i]]

HasLists(x) ==
  IsMap(x) => \A k \in DOMAIN x.entries : IsList(x.entries[k]) => IsSequence(x.entries[k].items)

ASSUME DocumentsAreParsed ==
  /\ \A d \in Documents : HasLists(d)
  /\ \A c \in Chains :
       /\ IsSequence(c)
       /\ \A i \in 1 .. Len(c) : c[i].kind = "merge" => HasLists(c[i].patch)

\* Every key with a prefix is among the keys whose order can matter.
ASSUME PrefixesAreOrdered ==
  /\ IsSequence(KeyOrder)
  /\ \A x \in DOMAIN Splicing :
       Splicing[x].front \in BOOLEAN /\ \E n \in 1 .. Len(KeyOrder) : KeyOrder[n] = x

(********************************* deep_merge ********************************)

Items(x) == IF IsList(x) THEN x.items ELSE <<x>>

\* splice_sequence.
Spliced(list, new, front) ==
  List(IF front THEN Items(new) \o list.items ELSE list.items \o Items(new))

\* prepend-X and append-X extend a list X, and are plain keys without one.
Entered(Sub(_, _), m, k, new) ==
  IF k \in DOMAIN Splicing /\ IsList(In(m, Splicing[k].list))
  THEN LET x == Splicing[k].list
       IN  With(m, Entry(x, Spliced(In(m, x), new, Splicing[k].front)))
  ELSE With(m, Entry(k, Sub(In(m, k), new)))

\* Two mappings are merged key by key, Sub doing it below; anything else is replaced.
MergeMaps(Sub(_, _), base, patch) ==
  IF ~(IsMap(base) /\ IsMap(patch)) THEN patch
  ELSE LET others == [k \in DOMAIN patch.entries \ Range(KeyOrder) |->
                        Sub(In(base, k), patch.entries[k])]
           merged[n \in 0 .. Len(KeyOrder)] ==
             IF n = 0 THEN With(base, others)
             ELSE IF KeyOrder[n] \in DOMAIN patch.entries
             THEN Entered(Sub, merged[n - 1], KeyOrder[n], patch.entries[KeyOrder[n]])
             ELSE merged[n - 1]
       IN  merged[Len(KeyOrder)]

Replaced(base, patch) == patch

\* deep_merge, unrolled to the depth of the documents.
Merge1(base, patch) == MergeMaps(Replaced, base, patch)
Merge2(base, patch) == MergeMaps(Merge1, base, patch)
Merge3(base, patch) == MergeMaps(Merge2, base, patch)
DeepMerge(base, patch) == MergeMaps(Merge3, base, patch)

(****************************** the enhancers ********************************)

Step(from, to) == stage = from /\ stage' = to
BuildFails          == stage' = "failed" /\ UNCHANGED doc

\* run_script_with_profile: a script that fails or returns anything but an object is
\* refused.
RunScript(returns) ==
  IF IsMap(returns) THEN doc' = returns /\ UNCHANGED stage ELSE BuildFails

\* apply_enhancers and apply_chain: one after the other, and the first failure ends
\* the build.
Enhance ==
  /\ stage = "enhance" /\ chain # <<>>
  /\ chain' = Tail(chain)
  /\ LET item == Head(chain) IN
     IF item.kind = "merge"
     THEN doc' = DeepMerge(doc, item.patch) /\ UNCHANGED stage
     ELSE RunScript(item.returns)
  /\ UNCHANGED <<settings, profile, enhanced>>

\* build_runtime_config checks the TUN options and that it has a mapping.
Check ==
  /\ stage = "enhance" /\ chain = <<>>
  /\ LET d == IF doc = Null THEN Map(<<>>) ELSE doc IN
     IF settings.tunValid /\ IsMap(d)
     THEN stage' = "control" /\ doc' = d /\ enhanced' = d
     ELSE BuildFails /\ UNCHANGED enhanced
  /\ UNCHANGED <<chain, settings, profile>>

(******************************** the settings *******************************)

\* Also the fixed external-ui and external-ui-url, which nothing reads back here.
Control ==
  /\ Step("control", "sniffer")
  /\ LET chosen == Over(IF settings.findProcess # Null
                          THEN Entry("find-process-mode", settings.findProcess) ELSE <<>>,
                        IF settings.unifiedDelay THEN Entry("unified-delay", On) ELSE <<>>)
         absent == Over(Entry("find-process-mode", Scalar("strict")), Entry("tcp-concurrent", On))
     IN  doc' = Lacking(With(doc, Over(settings.control, chosen)), absent)
  /\ UNCHANGED <<chain, settings, profile, enhanced>>

\* ensure_sniffer: the profile's section over the defaults, and on.
Sniffer ==
  /\ Step("sniffer", "tun")
  /\ LET own    == In(doc, "sniffer")
         merged == IF IsMap(own) THEN Merge3(settings.sniffing, own) ELSE settings.sniffing
     IN  doc' = IF settings.sniffer
                THEN With(doc, Entry("sniffer", With(merged, Entry("enable", On))))
                ELSE doc
  /\ UNCHANGED <<chain, settings, profile, enhanced>>

\* TunOptions::apply, or a profile's own tun section is switched off.
Tun ==
  /\ Step("tun", "dns")
  /\ LET own == In(doc, "tun")
         set == With(IF IsMap(own) THEN own ELSE Map(<<>>),
                     Over(Entry("enable", On), settings.tunOptions))
         new == Lacking(set, Entry("stack", Scalar("gvisor")))
     IN  doc' = IF settings.tun THEN With(doc, Over(Entry("tun", new), settings.interface))
                ELSE IF IsMap(own) THEN With(doc, Entry("tun", With(own, Entry("enable", Off))))
                ELSE doc
  /\ UNCHANGED <<chain, settings, profile, enhanced>>

\* deep_merge of a patch with the one key dns.
IntoDns(patch) == With(doc, Entry("dns", Merge3(In(doc, "dns"), patch)))

\* The section the settings make.
FakeIp == [k \in {"fake-ip-range", "fake-ip-filter-mode"} |-> settings.dns[k]]

DnsOfSettings ==
  LET d == settings.dns
      said == {"listen", "ipv6", "prefer-h3"}
              \cup (IF d["enhanced-mode"] = Scalar("") THEN {} ELSE {"enhanced-mode"})
              \cup (IF d["enhanced-mode"] = Scalar("fake-ip") THEN DOMAIN FakeIp ELSE {})
  IN  Map(Over(Entry("enable", On), Over([k \in said |-> d[k]], settings.dnsChoices)))

\* Mutant: the section of the settings replaces the profile's.
DnsReplaced ==
  /\ Step("dns", "override")
  /\ doc' = With(doc, Entry("dns", IF settings.enableDns THEN DnsOfSettings
                                    ELSE Map(Entry("enable", Off))))
  /\ UNCHANGED <<chain, settings, profile, enhanced>>

Dns ==
  /\ Step("dns", "override")
  /\ doc' = IntoDns(IF settings.enableDns THEN DnsOfSettings ELSE Map(Entry("enable", Off)))
  /\ UNCHANGED <<chain, settings, profile, enhanced>>

\* normalize_dns_override: the fragment, or what it has under dns.
Normal(o) == IF "dns" \in DOMAIN o.entries THEN o.entries["dns"] ELSE o

DnsOverride ==
  /\ stage = "override"
  /\ LET o == settings.dnsOverride IN
     IF o = Null THEN stage' = "force" /\ UNCHANGED doc
     ELSE IF IsMap(o) /\ IsMap(Normal(o))
     THEN stage' = "force"
          /\ doc' = With(doc, Entry("dns", Lacking(Merge3(In(doc, "dns"), Normal(o)),
                                                   Entry("enable", On))))
     ELSE BuildFails
  /\ UNCHANGED <<chain, settings, profile, enhanced>>

\* ensure_tun_dns: what TUN needs, whatever was said before.
TunDns(d) ==
  LET own   == IF IsMap(d) THEN d ELSE Map(<<>>)
      base  == Lacking(With(own, Entry("enable", On)),
                       Over(Entry("listen", settings.dns["listen"]),
                            Entry("ipv6", settings.control["ipv6"])))
      said  == In(base, "enhanced-mode")
      mode  == IF "scalar" \in DOMAIN said /\ said # Scalar("") THEN said
               ELSE IF settings.dns["enhanced-mode"] = Scalar("") THEN Scalar("fake-ip")
               ELSE settings.dns["enhanced-mode"]
      moded == With(base, Entry("enhanced-mode", mode))
  IN  IF mode = Scalar("fake-ip") THEN Lacking(moded, FakeIp) ELSE moded

\* Mutant: the override's word is the last without TUN.
ForceDnsForTunOnly ==
  /\ Step("force", "servers")
  /\ doc' = IF settings.tun THEN With(doc, Entry("dns", TunDns(In(doc, "dns")))) ELSE doc
  /\ UNCHANGED <<chain, settings, profile, enhanced>>

\* With neither the switch nor TUN the section is off; with TUN it is on.
ForceDns ==
  /\ Step("force", "servers")
  /\ LET d == In(doc, "dns") IN
     doc' = IF settings.tun THEN With(doc, Entry("dns", TunDns(d)))
            ELSE IF ~settings.enableDns /\ IsMap(d)
            THEN With(doc, Entry("dns", With(d, Entry("enable", Off)))) ELSE doc
  /\ UNCHANGED <<chain, settings, profile, enhanced>>

(***************************** what is left over *****************************)

ServerLists == {"nameserver", "default-nameserver", "proxy-server-nameserver"}
Filled(d, k) == IsList(In(d, k)) /\ In(d, k).items # <<>>
DefaultServers == List(<<Scalar("built-in")>>)

\* ensure_default_nameservers, when the section is on in the end.
Servers ==
  /\ Step("servers", "hosts")
  /\ LET d == In(doc, "dns")
         missing == {k \in ServerLists : ~Filled(d, k)}
     IN  doc' = IF In(d, "enable") = On
                THEN With(doc, Entry("dns", With(d, [k \in missing |-> DefaultServers]))) ELSE doc
  /\ UNCHANGED <<chain, settings, profile, enhanced>>

\* The lines of settings.hosts that have a name and an address.
Hosts ==
  /\ Step("hosts", "done")
  /\ doc' = IF settings.hosts = <<>> THEN doc
            ELSE With(doc, Entry("hosts", Merge2(In(doc, "hosts"), Map(settings.hosts))))
  /\ UNCHANGED <<chain, settings, profile, enhanced>>

(****************************** specification ********************************)

BuildStarts(d, c, s) ==
  /\ stage = "enhance" /\ doc = d /\ chain = c /\ settings = s
  /\ profile = <<d, c>> /\ enhanced = Null

BuildInit == \E d \in Documents, c \in Chains, s \in SettingsValues : BuildStarts(d, c, s)

BuildNext ==
  \/ Enhance \/ Check \/ Control \/ Sniffer \/ Tun \/ Dns \/ DnsOverride \/ ForceDns
  \/ Servers \/ Hosts

BuildSpec == BuildInit /\ [][BuildNext]_buildVars

(******************************** properties *********************************)

Done == stage = "done"

\* What the override names, and what it says of the switch: it is merged after the
\* settings, and an override without a word on it turns the resolver on.
Overridden ==
  LET o == settings.dnsOverride IN
  IF IsMap(o) /\ IsMap(Normal(o)) THEN DOMAIN Normal(o).entries ELSE {}
LastWord ==
  IF "enable" \in Overridden THEN Normal(settings.dnsOverride).entries["enable"] ELSE On

\* However the profile, its scripts and the override put it, the runtime listens, is
\* controlled and authenticated as the application's settings say, and TUN is on
\* exactly when they ask for it (doc comment of build_runtime_config,
\* config_gen.rs:200-207).  The resolver is on with TUN, and off with neither TUN nor
\* the switch, whatever the override says; with the switch alone it is on unless the
\* override turns it off (config_gen.rs:302-356).
SettingsWin ==
  Done =>
    LET resolver == In(In(doc, "dns"), "enable") IN
    /\ \A k \in ControlKeys : In(doc, k) = settings.control[k]
    /\ IF settings.tun THEN In(In(doc, "tun"), "enable") = On
       ELSE In(In(doc, "tun"), "enable") # On
    /\ settings.tun => resolver = On
    /\ ~settings.tun /\ ~settings.enableDns => resolver # On
    /\ ~settings.tun /\ settings.enableDns /\ LastWord \in {On, Off} => resolver = LastWord
    /\ settings.sniffer => In(In(doc, "sniffer"), "enable") = On

\* A resolver that is on has servers to ask, to reach those servers and to reach the
\* proxies with; under TUN it has a mode, and an address range if that is fake-ip
\* (config_gen.rs:123-197, 358-369).
DnsResolvable ==
  Done /\ In(In(doc, "dns"), "enable") = On =>
    LET d == In(doc, "dns") IN
    /\ \A k \in ServerLists : Filled(d, k)
    /\ settings.tun => In(d, "enhanced-mode") \notin {Null, Scalar("")}
    /\ settings.tun /\ In(d, "enhanced-mode") = Scalar("fake-ip") =>
         "fake-ip-range" \in DOMAIN d.entries

\* Both: the runtime obeys the settings, and what they ask for can work
\* (config_gen.rs:223-369).
RuntimeObeys == SettingsWin /\ DnsResolvable

Occurs(part, whole) ==
  \E i \in 0 .. Len(whole) - Len(part) : SubSeq(whole, i + 1, i + Len(part)) = part

Names(item, k) == item.kind # "merge" \/ (IsMap(item.patch) => k \in DOMAIN item.patch.entries)

\* A list that no enhancer replaces is in the runtime in one piece, and whatever is
\* prepended to it is in front of that.
ListIsKept(k) ==
  LET base  == In(profile[1], k)
      items == profile[2]
      list  == In(doc, k).items
  IN  IsList(base) /\ (\A i \in 1 .. Len(items) : ~Names(items[i], k)) =>
        /\ IsList(In(doc, k))
        /\ \E cut \in 0 .. Len(list) - Len(base.items) :
             /\ SubSeq(list, cut + 1, cut + Len(base.items)) = base.items
             /\ \A i \in 1 .. Len(items), x \in DOMAIN Splicing :
                  Splicing[x].list = k /\ Splicing[x].front /\ Names(items[i], x) =>
                    Occurs(Items(items[i].patch.entries[x]), SubSeq(list, 1, cut))

\* What the settings and the override may say of the resolver.
Said == DOMAIN settings.dns \cup {"enable"} \cup DOMAIN settings.dnsChoices \cup Overridden

\* Nothing else is lost on the way (doc comment of build_runtime_config): a list of
\* the profile that no enhancer replaces is in the runtime in one piece, with what is
\* prepended in front of it (the first rule that matches decides), and what the
\* enhanced document has in its dns section stays unless the settings or the override
\* name it, or it is an empty list of servers.
RestIsKept ==
  Done =>
    LET own == In(enhanced, "dns") IN
    /\ \A k \in {"rules", "proxies"} : ListIsKept(k)
    /\ IsMap(own) => \A k \in DOMAIN own.entries \ Said :
         \/ In(In(doc, "dns"), k) = own.entries[k]
         \/ k \in ServerLists /\ ~Filled(own, k)
         \/ \E x \in Overridden \cap DOMAIN Splicing : Splicing[x].list = k
=============================================================================
