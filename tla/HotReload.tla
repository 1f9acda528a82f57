----------------------------- MODULE HotReload ------------------------------
(***************************************************************************)
(* The two file watchers of the server: the license (internal/license,     *)
(* booted by runWithSaasAuth) and the certificate pair of the SQL proxy    *)
(* (internal/sqlproxy).  Operators rotate the files while a watcher reads  *)
(* them part by part; fsnotify events may be lost.  hkind says which of    *)
(* the two watchers a behaviour is about; they share no state.             *)
(***************************************************************************)
EXTENDS Integers, FiniteSets

CONSTANTS
    HMaxGen,        \* bound: rotations; a rotation writes one generation
    HSigned,        \* generations of the license with a valid signature
    HExpiry,        \* ExpiryUTC of each generation of the license
    HCovers,        \* generations whose tier covers the binary (tierCovers)
    HGrace,         \* gracePeriod
    HMaxTime        \* bound: last value of the clock

ASSUME HAssumption ==
    /\ HMaxGen \in Nat \ {0} /\ HMaxTime \in Nat
    /\ HSigned \subseteq 1 .. HMaxGen
    /\ HExpiry \in [1 .. HMaxGen -> Int] /\ HGrace \in Int

VARIABLES
    hkind,          \* which watcher: "license" or "cert"
    hclock,         \* time.Now()
    hfile,          \* content of each file
    htarget,        \* generation the current rotation writes
    hwatched,       \* files with a live fsnotify watch
    hevents,        \* events in fsw.Events
    hpc,            \* where the watcher is
    hread,          \* what the current reload has read so far
    hloaded,        \* the manifest, or the certificate and key, in use
    hasked          \* last answer of IsFeatureAllowed: allowed, and the time

hvars == << hkind, hclock, hfile, htarget, hwatched, hevents, hpc, hread, hloaded, hasked >>

Paths == IF hkind = "license" THEN {"manifest"} ELSE {"cert", "key"}

\* A file is missing, cut (unreadable), cut after the leaf certificate, or whole.
Missing == [gen |-> 0, state |-> "missing"]
Contents == [gen : 1 .. HMaxGen, state : {"cut", "leaf", "whole"}] \cup {Missing}

\* The state keeps its shape: what is in use was readable, a watch is on a file
\* of this watcher, and only a server that is up has something in use.
HTypeOK ==
    /\ hclock \in 0 .. HMaxTime /\ htarget \in 1 .. HMaxGen
    /\ hfile \in [Paths -> Contents]
    /\ hwatched \subseteq Paths
    /\ hevents \subseteq {"write", "rename"}
    /\ hpc \in {"boot", "start", "wait", "reading", "exited", "down"}
    /\ hread \in [DOMAIN hread -> Contents] /\ DOMAIN hread \subseteq Paths
    /\ hloaded = << >> \/ hloaded \in [Paths -> Contents \ {Missing}]
    /\ hpc \in {"boot", "down"} <=> hloaded = << >>

HInit ==
    /\ hkind \in {"license", "cert"}
    /\ hclock = 0
    /\ hfile = [p \in Paths |-> [gen |-> 1, state |-> "whole"]]
    /\ htarget = 1
    /\ hwatched = {} /\ hevents = {}
    /\ hpc = "boot"
    /\ hread = << >> /\ hloaded = << >>
    /\ hasked = [allowed |-> FALSE, at |-> 0]

-----------------------------------------------------------------------------
(* The operator, cert-manager or the kubelet.                              *)
RotationDone == \A p \in Paths : hfile[p] = [gen |-> htarget, state |-> "whole"]

HUntouched == UNCHANGED << hkind, hclock, hpc, hread, hloaded, hasked >>

\* An event reaches the channel of a watched file, or is lost.
Notify(p, e) == \/ p \in hwatched /\ hevents' = hevents \cup {e}
                \/ UNCHANGED hevents

StartRotation ==
    /\ RotationDone /\ htarget < HMaxGen
    /\ htarget' = htarget + 1
    /\ HUntouched /\ UNCHANGED << hfile, hwatched, hevents >>

\* A file is rewritten in place, one part after another.
WriteInPlace(p) ==
    /\ hfile[p] # [gen |-> htarget, state |-> "whole"]
    /\ hfile[p] # Missing
    /\ \E s \in {"cut", "whole"} \cup (IF p = "cert" THEN {"leaf"} ELSE {}) :
         hfile' = [hfile EXCEPT ![p] = [gen |-> htarget, state |-> s]]
    /\ Notify(p, "write")
    /\ HUntouched /\ UNCHANGED << htarget, hwatched >>

\* A whole file takes the path; the watch was on the old inode.
RenameOver(p) ==
    /\ hfile[p] # [gen |-> htarget, state |-> "whole"]
    /\ hfile' = [hfile EXCEPT ![p] = [gen |-> htarget, state |-> "whole"]]
    /\ Notify(p, "rename")
    /\ hwatched' = hwatched \ {p}
    /\ HUntouched /\ UNCHANGED htarget

\* The old file goes before the new one comes.
RemoveFile(p) ==
    /\ hfile[p].gen < htarget /\ hfile[p] # Missing
    /\ hfile' = [hfile EXCEPT ![p] = Missing]
    /\ Notify(p, "rename")
    /\ hwatched' = hwatched \ {p}
    /\ HUntouched /\ UNCHANGED htarget

HTick ==
    /\ hclock < HMaxTime /\ hkind = "license"
    /\ hclock' = hclock + 1
    /\ UNCHANGED << hkind, hfile, htarget, hwatched, hevents, hpc, hread, hloaded, hasked >>

-----------------------------------------------------------------------------
(* Reading and checking.                                                   *)
InGrace(g) == hclock <= HExpiry[g] + HGrace

\* The signature is over the canonical form of the manifest, which does not
\* depend on the order of keys or features in the file.
Signed(g) == g \in HSigned

\* Verify: the manifest parses, its signature holds, expiry plus grace.
Verify(c) ==
    /\ c["manifest"].state = "whole"
    /\ Signed(c["manifest"].gen)
    /\ InGrace(c["manifest"].gen)

\* tls.LoadX509KeyPair: both parse and the key is the leaf's.  A chain cut after
\* the leaf parses.
LoadX509KeyPair(c) ==
    /\ c["cert"].state # "cut" /\ c["key"].state = "whole"
    /\ c["cert"].gen = c["key"].gen

\* Mutant: the two files are checked one by one.
AcceptedUnpaired(c) ==
    /\ \A p \in Paths : c[p] # Missing
    /\ IF hkind = "license" THEN Verify(c) ELSE \A p \in Paths : c[p].state # "cut"

Accepted(c) ==
    /\ \A p \in Paths : c[p] # Missing
    /\ IF hkind = "license" THEN Verify(c) ELSE LoadX509KeyPair(c)

\* The files are read one after another: the certificate, then the key.
ToRead == IF hkind = "license" THEN "manifest"
          ELSE IF "cert" \in DOMAIN hread THEN "key" ELSE "cert"

ReadFile ==
    /\ hpc \in {"boot", "reading"} /\ DOMAIN hread # Paths
    /\ hread' = [p \in DOMAIN hread \cup {ToRead} |->
                   IF p = ToRead THEN hfile[p] ELSE hread[p]]
    /\ UNCHANGED << hkind, hclock, hfile, htarget, hwatched, hevents, hpc, hloaded, hasked >>

\* Mutant: the server boots without a good license.
BootUnlicensed ==
    /\ hpc = "boot" /\ DOMAIN hread = Paths
    /\ hread' = << >>
    /\ hloaded' = IF Accepted(hread) THEN hread ELSE hloaded
    /\ hpc' = "start"
    /\ UNCHANGED << hkind, hclock, hfile, htarget, hwatched, hevents, hasked >>

\* Boot: an unreadable or refused file, or a license of a lower tier, is fatal.
Boot ==
    /\ hpc = "boot" /\ DOMAIN hread = Paths
    /\ hread' = << >>
    /\ \/ /\ Accepted(hread)
          /\ hkind = "license" => hread["manifest"].gen \in HCovers
          /\ hloaded' = hread /\ hpc' = "start"
       \/ /\ \/ ~Accepted(hread)
             \/ hkind = "license" /\ hread["manifest"].gen \notin HCovers
          /\ hpc' = "down" /\ UNCHANGED hloaded
    /\ UNCHANGED << hkind, hclock, hfile, htarget, hwatched, hevents, hasked >>

Present == {p \in Paths : hfile[p] # Missing}

\* Watch adds its paths.  The certificate watcher gives up when a file is
\* missing right now; the license watcher relies on its ticker.
StartWatch ==
    /\ hpc = "start"
    /\ \/ /\ hkind = "license" \/ Present = Paths
          /\ hwatched' = Present /\ hpc' = "wait"
       \/ /\ hkind = "cert" /\ Present # Paths
          /\ hpc' = "exited" /\ UNCHANGED hwatched
    /\ UNCHANGED << hkind, hclock, hfile, htarget, hevents, hread, hloaded, hasked >>

\* Mutant: files are read again on events only.
NoPeriodicReload == FALSE /\ UNCHANGED hvars

\* The five-minute ticker.
PeriodicReload ==
    /\ hpc = "wait" /\ hpc' = "reading"
    /\ UNCHANGED << hkind, hclock, hfile, htarget, hwatched, hevents, hread, hloaded, hasked >>

\* An event: after a rename or a removal the watches are put on what is there now.
OnEvent(e) ==
    /\ hpc = "wait" /\ e \in hevents
    /\ hevents' = hevents \ {e}
    /\ hpc' = "reading"
    /\ hwatched' = IF e = "rename" THEN Present ELSE hwatched
    /\ UNCHANGED << hkind, hclock, hfile, htarget, hread, hloaded, hasked >>

\* Mutant: a bad read falls back to the manifest of the boot.
SwapFallsBack ==
    /\ hpc = "reading" /\ DOMAIN hread = Paths
    /\ hloaded' = IF Accepted(hread) THEN hread
                  ELSE [p \in Paths |-> [gen |-> 1, state |-> "whole"]]
    /\ hread' = << >> /\ hpc' = "wait"
    /\ UNCHANGED << hkind, hclock, hfile, htarget, hwatched, hevents, hasked >>

\* A good read is swapped in; a bad one is logged and the old one kept.
Swap ==
    /\ hpc = "reading" /\ DOMAIN hread = Paths
    /\ hloaded' = IF Accepted(hread) THEN hread ELSE hloaded
    /\ hread' = << >> /\ hpc' = "wait"
    /\ UNCHANGED << hkind, hclock, hfile, htarget, hwatched, hevents, hasked >>

\* Mutant: a loaded manifest is not looked at again.
FeatureTrustsLoad ==
    /\ hkind = "license" /\ hloaded # << >>
    /\ hasked' = [allowed |-> TRUE, at |-> hclock]
    /\ UNCHANGED << hkind, hclock, hfile, htarget, hwatched, hevents, hpc, hread, hloaded >>

\* IsFeatureAllowed for a feature every generation lists.
IsFeatureAllowed ==
    /\ hkind = "license" /\ hloaded # << >>
    /\ hasked' = [allowed |-> InGrace(hloaded["manifest"].gen), at |-> hclock]
    /\ UNCHANGED << hkind, hclock, hfile, htarget, hwatched, hevents, hpc, hread, hloaded >>

Watcher == ReadFile \/ Boot \/ StartWatch \/ PeriodicReload \/ Swap

HNext ==
    \/ StartRotation \/ HTick \/ Watcher \/ IsFeatureAllowed
    \/ \E e \in hevents : OnEvent(e)
    \/ \E p \in Paths : WriteInPlace(p) \/ RenameOver(p) \/ RemoveFile(p)

HSpec == HInit /\ [][HNext]_hvars

-----------------------------------------------------------------------------
\* Rotations replace certificate and key one at a time, in either order, in
\* place or by rename, while the watcher reads them; the pair the proxy serves
\* always belongs together (cert_watcher.go:8-12).
PairMatches ==
    hkind = "cert" /\ hloaded # << >> => hloaded["cert"].gen = hloaded["key"].gen

\* A reload that started before a rotation never puts an older generation back
\* in place of a newer one: one goroutine reads, checks and swaps in order.
NeverGoesBack ==
    [][hloaded # << >> => \A p \in Paths : hloaded'[p].gen >= hloaded[p].gen]_hvars

\* No feature is granted beyond expiry plus grace of every signed license ever
\* put in place, however long the files stay broken and the old manifest in use
\* (watcher.go:104-107).
NoGrantPastGrace ==
    hasked.allowed => \E g \in HSigned : g <= htarget /\ hasked.at <= HExpiry[g] + HGrace

\* What is in use is sound: a server that is up has something in use, a matching
\* pair, and grants no feature past its grace.
InUseSound == HTypeOK /\ PairMatches /\ NoGrantPastGrace

\* A rotation that ends with good files is picked up in the end even when every
\* event is lost, as long as the watcher runs (cert_watcher.go:101-107).
Good == /\ RotationDone /\ hpc \notin {"boot", "down", "exited"}
        /\ hkind = "license" => Signed(htarget) /\ InGrace(htarget)
RotationsLand == <>[]Good => <>[](hloaded = hfile)

\* Rotations take effect in order and in the end.
RotationsSound == NeverGoesBack /\ RotationsLand
=============================================================================
