------------------------------ MODULE CloudProofs ------------------------------
(***************************************************************************)
(* Theorems about what a project keeps outside its hosts, for any values   *)
(* of the constants.  CloudHost: the type, that a second droplet is never  *)
(* made, and that a host create which reports success has delivered what   *)
(* it says.  BackupKeys: the type, that a success leaves usable            *)
(* credentials, that restic reads its repository, and that each bootstrap  *)
(* key left over is one somebody was told of or nobody heard was made.     *)
(* Images: that a settled name is one build, and what a cleaning spares.   *)
(***************************************************************************)
EXTENDS CloudHost, BackupKeys, Images,
        WellFoundedInduction, FiniteSetTheorems, SequenceTheorems, TLAPS

----------------------------------------------------------------------------
(* CloudHost.  The inductive invariant, in parts.                          *)

One == \A d, e \in Ids : Exists(d) /\ Exists(e) => d = e
ActiveHasIp == \A d \in Ids : droplet[d].state = "active" => droplet[d].ip # NoIp
VolumeOK ==
    \A v \in Volumes : volume[v].mounted # 0 => volume[v].formats > 0
WorldOK == One /\ ActiveHasIp /\ VolumeOK

(* What a command knows where it is, whatever it is for.                   *)
Provisioning == {"project", "account", "create", "assign", "await", "again", "attached",
                 "ensure", "attach", "mount"}
Up(d) == droplet[d].state = "active" /\ droplet[d].ip = cmd.ip
CommandOK ==
    /\ cmd.tries < MaxAwait
    /\ cmd.pc # "idle" => ~outcome.ok
    /\ cmd.pc \in Provisioning => cmd.kind = "create"
    /\ cmd.pc = "create" => \A d \in Ids : ~Exists(d)
    /\ cmd.pc \in {"assign", "ensure", "attach", "mount"} => cmd.at # 0
    /\ cmd.pc = "known" => info = cmd.ip /\ \A d \in Ids : Exists(d) => Up(d)

(* What host create has done so far when it has noted no failure: to the   *)
(* droplet, as long as it is there, and once it has no more step that asks *)
(* for it, unless it was destroyed since.                                  *)
Ready(d) == Listed(d) /\ droplet[d].state = "active" /\ droplet[d].ip = info /\ HasEntry(info)
Filled(v, d) == PathServed(v, d)
VolumeSteps == {"attached", "ensure", "attach", "mount"}
Working == VolumeSteps \cup Checks
CreateLists ==
    cmd.pc \in VolumeSteps \cup {"find", "known", "again"} => \A d \in Ids : Exists(d) => Listed(d)
CreateReady ==
    /\ cmd.pc \in VolumeSteps \cup {"again"} => \A d \in Ids : Exists(d) => Ready(d)
    /\ cmd.pc \in Working => cmd.ip = info
    /\ cmd.pc \in Checks /\ ~late => \E d \in Ids : Ready(d)
CreateFills ==
    /\ cmd.pc = "attached" => cmd.vols = Volumes
    /\ cmd.pc \in {"ensure", "attach", "mount"} =>
        (Exists(cmd.at) => \A v \in Volumes \ cmd.vols : Filled(v, cmd.at))
    /\ cmd.pc \in Checks /\ ~late =>
        \E d \in Ids : Exists(d) /\ \A v \in Volumes : Filled(v, d)
CreateMatches == cmd.pc = "public" => RecordsMatch
CreateOK ==
    cmd.kind = "create" =>
        CreateLists /\ (~cmd.failed => CreateReady /\ CreateFills /\ CreateMatches)

Inv == TypeOK /\ WorldOK /\ CommandOK /\ CreateOK /\ CreateDelivers

----------------------------------------------------------------------------
(* The resolver: the record tables are finite, so the chain of CNAMEs has  *)
(* an answer and it is an address.  The least natural number of a set      *)
(* stands in for induction.                                                *)

SiteNames == Sites \cup {NoSite}
Look(table, f, n, x) ==
  IF n = 0 \/ x = NoSite THEN NoIp
  ELSE IF table[x].a # NoIp THEN table[x].a ELSE f[n - 1][table[x].cname]
Follows(table, f, k) ==
  /\ f \in [0..k -> [SiteNames -> Address]]
  /\ \A n \in 0..k, x \in SiteNames : f[n][x] = Look(table, f, n, x)

LEMMA DepthIsNat == Depth \in Nat
<1>1. Cardinality(Sites) \in Nat BY FS_CardinalityType, HostAssumption
<1>2. PICK m \in {8, Cardinality(Sites)} : \A y \in {8, Cardinality(Sites)} : m <= y BY <1>1
<1>3. Depth \in {8, Cardinality(Sites)} BY <1>2 DEF Depth, Min
<1> QED BY <1>1, <1>3

LEMMA Smallest == ASSUME NEW Bad \in SUBSET Nat, Bad # {} PROVE \E n \in Bad : \A m \in Bad : n <= m
<1> DEFINE R == OpToRel(<, Nat)
<1>1. IsWellFoundedOn(R, Nat) BY NatLessThanWellFounded
<1>2. \A a, b \in Nat : a < b => <<a, b>> \in R BY DEF OpToRel
<1> HIDE DEF R
<1>3. PICK n \in Bad : \A m \in Bad : ~(<<m, n>> \in R) BY <1>1, WFMin
<1>4. \A m \in Bad : m \in Nat /\ n \in Nat /\ ~(m < n) BY <1>2, <1>3
<1>5. \A m \in Bad : n <= m BY <1>4
<1> QED BY <1>5

LEMMA AnAnswerExists == ASSUME NEW table \in [Sites -> Records], NEW k \in Nat PROVE \E f : Follows(table, f, k)
<1> DEFINE Bad == {n \in Nat : ~\E f : Follows(table, f, n)}
<1> SUFFICES ASSUME Bad # {} PROVE FALSE OBVIOUS
<1>1. PICK n \in Bad : \A m \in Bad : n <= m
  <2>1. Bad \in SUBSET Nat OBVIOUS
  <2> HIDE DEF Bad
  <2> QED BY <2>1, Smallest
<1>2. CASE n = 0
  <2> DEFINE f == [i \in 0..0 |-> [x \in SiteNames |-> NoIp]]
  <2>1. f \in [0..0 -> [SiteNames -> Address]] BY DEF Address
  <2>2. \A m \in 0..0, x \in SiteNames : f[m][x] = NoIp /\ m = 0 OBVIOUS
  <2> HIDE DEF f
  <2>3. Follows(table, f, 0) BY <2>1, <2>2 DEF Follows, Look
  <2> QED BY <2>3, <1>2
<1>3. CASE n # 0
  <2>1. n - 1 \in Nat /\ n - 1 \notin Bad BY <1>1, <1>3
  <2>2. PICK f : Follows(table, f, n - 1) BY <2>1
  <2> DEFINE g == [i \in 0..n |-> IF i = n THEN [x \in SiteNames |-> Look(table, f, n, x)] ELSE f[i]]
  <2>3. \A x \in SiteNames : Look(table, f, n, x) \in Address
    <3> TAKE x \in SiteNames
    <3>1. f[n - 1] \in [SiteNames -> Address] BY <2>1, <2>2 DEF Follows
    <3>2. x # NoSite => table[x].a \in Address /\ table[x].cname \in SiteNames BY DEF Records, SiteNames
    <3> QED BY <3>1, <3>2 DEF Look, Address
  <2>4. g \in [0..n -> [SiteNames -> Address]] BY <2>1, <2>2, <2>3 DEF Follows
  <2>5. ASSUME NEW m \in 0..n, NEW x \in SiteNames PROVE g[m][x] = Look(table, g, m, x)
    <3>1. x # NoSite => table[x].cname \in SiteNames BY DEF SiteNames, Records
    <3>2. m > 0 => g[m - 1] = f[m - 1] BY <2>1
    <3>3. Look(table, g, m, x) = Look(table, f, m, x) BY <3>2 DEF Look
    <3>4. g[m][x] = IF m = n THEN Look(table, f, n, x) ELSE f[m][x] OBVIOUS
    <3>5. m # n => f[m][x] = Look(table, f, m, x) BY <2>2, <2>1 DEF Follows
    <3> QED BY <3>3, <3>4, <3>5
  <2>6. Follows(table, g, n) BY <2>4, <2>5 DEF Follows
  <2> QED BY <2>6
<1> QED BY <1>2, <1>3

LEMMA AnswerIsAddress ==
  ASSUME NEW table \in [Sites -> Records], NEW s \in Sites PROVE Answer(table, s) \in Address
<1> DEFINE R(f) == [n \in 0..Depth |-> [x \in SiteNames |-> Look(table, f, n, x)]]
<1> DEFINE f == CHOOSE h : h = R(h)
<1>0. Depth \in Nat BY DepthIsNat
<1>1. PICK g : Follows(table, g, Depth) BY AnAnswerExists, <1>0
<1>2. g = R(g) BY <1>1 DEF Follows
<1>3. f = R(f) BY <1>2
<1>4. Answer(table, s) = f[Depth][s] BY DEF Answer, Look, SiteNames
<1> HIDE DEF f
<1>5. \A n \in 0..Depth, x \in SiteNames : f[n][x] = Look(table, f, n, x)
  <2> TAKE n \in 0..Depth, x \in SiteNames
  <2> DEFINE row == [y \in SiteNames |-> Look(table, f, n, y)]
  <2>1. R(f)[n] = row OBVIOUS
  <2>2. row[x] = Look(table, f, n, x) OBVIOUS
  <2> HIDE DEF R, row
  <2> QED BY <1>3, <2>1, <2>2
<1> DEFINE Bad == {n \in 0..Depth : \E x \in SiteNames : f[n][x] \notin Address}
<1>6. Bad = {}
  <2> SUFFICES ASSUME Bad # {} PROVE FALSE OBVIOUS
  <2>0. Bad \subseteq Nat BY <1>0
  <2>1. PICK n \in Bad : \A m \in Bad : n <= m
    <3> HIDE DEF Bad
    <3> QED BY <2>0, Smallest
  <2>2. PICK x \in SiteNames : f[n][x] \notin Address BY <2>1
  <2>3. n \in Nat BY <2>0
  <2>4. n # 0 /\ x # NoSite BY <1>5, <2>2 DEF Look, Address
  <2>5. n - 1 \in 0..Depth /\ n - 1 \notin Bad BY <2>1, <2>3, <2>4, <1>0
  <2>6. table[x].a \in Address /\ table[x].cname \in SiteNames BY <2>4 DEF SiteNames, Records
  <2> QED BY <1>5, <2>2, <2>5, <2>6 DEF Look
<1> QED BY <1>4, <1>6, <1>0 DEF SiteNames
----------------------------------------------------------------------------
(* Commands that end, and steps of a command that leave the world alone.   *)

LEMMA SameWorld ==
  ASSUME UNCHANGED world
  PROVE  /\ \A d \in Ids : Exists(d)' = Exists(d) /\ Listed(d)' = Listed(d)
         /\ \A i \in Address : HasEntry(i)' = HasEntry(i)
         /\ \A s \in Sites : Resolve(s)' = Resolve(s)
         /\ WorldOK => WorldOK'
BY DEF world, Exists, Listed, HasEntry, Resolve, WorldOK, One, ActiveHasIp, VolumeOK

LEMMA IdleIsCommand == Idle \in Commands
<1>1. 0 \in 0..MaxAwait BY HostAssumption
<1> QED BY <1>1 DEF Idle, Commands, Kinds, Steps, Address

LEMMA EndKeeps ==
  ASSUME Inv, NEW ok \in BOOLEAN, End(ok), UNCHANGED <<world, late, commands>>,
         cmd.kind = "create" /\ ok => CreateDelivers'
  PROVE  Inv'
<1>1. cmd' = Idle /\ outcome' = [kind |-> cmd.kind, ok |-> ok] BY DEF End
<1>2. TypeOK'
  <2>1. cmd' \in Commands BY <1>1, IdleIsCommand
  <2>2. outcome' \in [kind : Kinds, ok : BOOLEAN] BY <1>1 DEF Inv, TypeOK, Commands
  <2> QED BY <2>1, <2>2 DEF Inv, TypeOK, world
<1>3. WorldOK' BY SameWorld DEF Inv
<1>4. CommandOK' /\ CreateOK'
  BY <1>1, HostAssumption DEF CommandOK, Provisioning, CreateOK, Idle
<1>5. CreateDelivers' BY <1>1 DEF CreateDelivers, Delivered
<1> QED BY <1>2, <1>3, <1>4, <1>5 DEF Inv

LEMMA StepKeeps ==
  ASSUME Inv, UNCHANGED <<world, outcome, late, commands>>, cmd.pc # "idle",
         cmd' \in Commands, CommandOK', CreateOK'
  PROVE  Inv'
<1>1. TypeOK' BY DEF Inv, TypeOK, world
<1>2. WorldOK' BY SameWorld DEF Inv
<1>3. CreateDelivers' BY DEF CreateDelivers, Delivered, Inv, CommandOK
<1> QED BY <1>1, <1>2, <1>3 DEF Inv

LEMMA BeginKeeps ==
  ASSUME Inv, NEW kind \in Kinds, NEW reuse \in BOOLEAN, Begin(kind, reuse)
  PROVE  Inv'
<1> DEFINE pc == IF kind = "create" THEN "project" ELSE "find"
<1>1. cmd' = [Idle EXCEPT !.kind = kind, !.reuse = reuse, !.pc = pc] BY DEF Begin
<1>2. /\ cmd' \in Commands
      /\ cmd'.kind = kind /\ cmd'.pc = pc /\ cmd'.tries = 0
  BY <1>1, IdleIsCommand DEF Idle, Commands, Kinds, Steps
<1>3. outcome' = NoOutcome /\ late' = FALSE /\ UNCHANGED world /\ commands' = commands + 1 /\ commands < MaxCommands BY DEF Begin
<1>4. TypeOK'
  <2>1. commands' \in 0..MaxCommands BY <1>3, HostAssumption DEF Inv, TypeOK
  <2>2. NoOutcome \in [kind : Kinds, ok : BOOLEAN] BY DEF NoOutcome, Kinds
  <2> QED BY <2>1, <2>2, <1>2, <1>3 DEF Inv, TypeOK, world
<1>5. WorldOK' BY <1>3, SameWorld DEF Inv
<1>6. CommandOK' BY <1>2, <1>3, HostAssumption DEF CommandOK, Provisioning, NoOutcome
<1>7. CreateOK'
  BY <1>2 DEF CreateOK, CreateLists, CreateReady, CreateFills, CreateMatches, Working, VolumeSteps, Checks
<1>8. CreateDelivers' BY <1>3 DEF CreateDelivers, Delivered, NoOutcome
<1> QED BY <1>4, <1>5, <1>6, <1>7, <1>8 DEF Inv

(* What the mount script makes of a volume.                                *)
LEMMA MountedIs ==
  ASSUME Inv, NEW v \in Volumes, NEW n \in Formats(v)
  PROVE  /\ volume[v] \in VolumeStates /\ n \in {1, 2}
         /\ Mounted(v, n) \in VolumeStates /\ InFstab(v, n) \in VolumeStates
         /\ Mounted(v, n).formats = n /\ InFstab(v, n).formats = n
         /\ InFstab(v, n).mounted = volume[v].on
<1>1. volume[v] \in VolumeStates BY DEF Inv, TypeOK
<1>2. volume[v].formats \in 0..2 BY <1>1 DEF VolumeStates
<1>3. n \in {1, 2} BY <1>2 DEF Formats
<1>4. n \in 0..2 /\ volume[v].on \in Ids \cup {0} BY <1>1, <1>3 DEF VolumeStates
<1>5. Mounted(v, n) \in VolumeStates /\ Mounted(v, n).formats = n /\ Mounted(v, n).mounted = volume[v].on
  BY <1>1, <1>4 DEF Mounted, VolumeStates
<1>6. /\ InFstab(v, n) \in VolumeStates
      /\ InFstab(v, n).formats = Mounted(v, n).formats
      /\ InFstab(v, n).mounted = Mounted(v, n).mounted
  BY <1>4, <1>5 DEF InFstab, VolumeStates
<1> QED BY <1>1, <1>3, <1>5, <1>6

(* A mount script that breaks off leaves no volume mounted and blank.      *)
LEMMA ScriptLeaves ==
  ASSUME Inv, ScriptBreaksOff PROVE volume' \in [Volumes -> VolumeStates] /\ VolumeOK'
<1>1. CASE UNCHANGED volume BY <1>1 DEF Inv, TypeOK, WorldOK, VolumeOK
<1>2. ASSUME NEW v \in cmd.vols, NEW n \in Formats(v),
             volume' \in {[volume EXCEPT ![v].formats = n], [volume EXCEPT ![v] = Mounted(v, n)],
                          [volume EXCEPT ![v] = InFstab(v, n)]}
      PROVE  volume' \in [Volumes -> VolumeStates] /\ VolumeOK'
  <2>1. v \in Volumes /\ volume \in [Volumes -> VolumeStates] BY DEF Inv, TypeOK, Commands
  <2>2. volume'[v] \in VolumeStates /\ volume'[v].formats > 0 /\ \A u \in Volumes \ {v} : volume'[u] = volume[u]
    <3>1. n \in {1, 2} /\ n \in 0..2 /\ volume[v] \in VolumeStates BY <2>1, MountedIs
    <3>2. CASE volume' = [volume EXCEPT ![v].formats = n]
      <4>1. volume'[v] = [volume[v] EXCEPT !.formats = n] BY <2>1, <3>2
      <4>2. volume'[v] \in VolumeStates /\ volume'[v].formats = n BY <3>1, <4>1 DEF VolumeStates
      <4> QED BY <2>1, <3>1, <3>2, <4>2
    <3>3. CASE volume' = [volume EXCEPT ![v] = Mounted(v, n)] BY <2>1, <3>1, <3>3, MountedIs
    <3>4. CASE volume' = [volume EXCEPT ![v] = InFstab(v, n)] BY <2>1, <3>1, <3>4, MountedIs
    <3> QED BY <1>2, <3>2, <3>3, <3>4
  <2>3. volume' \in [Volumes -> VolumeStates]
    <3>1. CASE volume' = [volume EXCEPT ![v].formats = n] BY <2>1, <2>2, <3>1
    <3>2. CASE volume' = [volume EXCEPT ![v] = Mounted(v, n)] BY <2>1, <2>2, <3>2
    <3>3. CASE volume' = [volume EXCEPT ![v] = InFstab(v, n)] BY <2>1, <2>2, <3>3
    <3> QED BY <1>2, <3>1, <3>2, <3>3
  <2> QED BY <2>2, <2>3 DEF Inv, WorldOK, VolumeOK
<1> QED BY <1>1, <1>2 DEF ScriptBreaksOff

LEMMA StopsKeeps == ASSUME Inv, Stops PROVE Inv'
<1>1. /\ cmd.pc # "idle" /\ End(FALSE)
      /\ UNCHANGED <<droplet, sshd, info, known, taken, dns, public, late, commands>>
  BY DEF Stops
<1>2. cmd' = Idle /\ outcome' = [kind |-> cmd.kind, ok |-> FALSE] BY <1>1 DEF End
<1>3. volume' \in [Volumes -> VolumeStates] /\ VolumeOK'
  <2>1. CASE UNCHANGED volume BY <2>1 DEF Inv, TypeOK, WorldOK, VolumeOK
  <2> QED BY <2>1, ScriptLeaves DEF Stops
<1>4. outcome' \in [kind : Kinds, ok : BOOLEAN] BY <1>2 DEF Inv, TypeOK, Commands
<1>5. TypeOK' BY <1>1, <1>2, <1>3, <1>4, IdleIsCommand DEF Inv, TypeOK
<1>6. WorldOK' BY <1>1, <1>3 DEF Inv, WorldOK, One, Exists, ActiveHasIp
<1>7. CommandOK' /\ CreateOK' BY <1>2, HostAssumption DEF CommandOK, Provisioning, CreateOK, Idle
<1>8. CreateDelivers' BY <1>2 DEF CreateDelivers, Delivered
<1> QED BY <1>5, <1>6, <1>7, <1>8 DEF Inv

----------------------------------------------------------------------------
(* create_droplet.                                                         *)

LEMMA GoIs ==
  ASSUME Inv, NEW pc \in Steps, Go(pc)
  PROVE  /\ cmd' \in Commands /\ cmd'.pc = pc /\ UNCHANGED outcome
         /\ cmd'.kind = cmd.kind /\ cmd'.at = cmd.at /\ cmd'.ip = cmd.ip /\ cmd'.failed = cmd.failed
         /\ cmd'.vols = cmd.vols /\ cmd'.sites = cmd.sites /\ cmd'.tries = cmd.tries
BY DEF Go, Inv, TypeOK, Commands

LEMMA NoteIs ==
  ASSUME Inv, NEW pc \in Steps, Note(pc)
  PROVE  /\ cmd' \in Commands /\ cmd'.pc = pc /\ UNCHANGED outcome
         /\ cmd'.kind = cmd.kind /\ cmd'.at = cmd.at /\ cmd'.ip = cmd.ip /\ cmd'.failed
         /\ cmd'.vols = cmd.vols /\ cmd'.sites = cmd.sites /\ cmd'.tries = cmd.tries
BY DEF Note, Inv, TypeOK, Commands

LEMMA LookInProjectKeeps == ASSUME Inv, LookInProject PROVE Inv'
<1>1. cmd.pc = "project" /\ UNCHANGED <<world, late, commands>> /\ cmd.kind = "create"
  BY DEF LookInProject, Inv, CommandOK, Provisioning
<1>2. CASE End(FALSE) BY <1>1, <1>2, EndKeeps
<1>3. CASE Go("find") /\ \E d \in Ids : Listed(d)
  <2>0. \A d \in Ids : Exists(d) => Listed(d) BY <1>3 DEF Inv, WorldOK, One, Listed
  <2>1. CommandOK' BY <1>1, <1>3, GoIs DEF CommandOK, Provisioning, Steps, Inv
  <2>2. \A d \in Ids : Exists(d)' => Listed(d)' BY <1>1, <2>0, SameWorld
  <2>3. CreateOK'
    BY <2>2, <1>3, GoIs DEF CreateOK, CreateLists, CreateReady, CreateFills, CreateMatches,
      Working, VolumeSteps, Checks, Steps
  <2> QED BY <2>1, <2>3, <1>1, <1>3, GoIs, StepKeeps DEF Steps
<1>4. CASE Go("account")
  <2>1. CommandOK' BY <1>1, <1>4, GoIs DEF CommandOK, Provisioning, Steps, Inv
  <2>3. CreateOK'
    BY <1>4, GoIs DEF CreateOK, CreateLists, CreateReady, CreateFills, CreateMatches, Working, VolumeSteps, Checks, Steps
  <2> QED BY <2>1, <2>3, <1>1, <1>4, GoIs, StepKeeps DEF Steps
<1> QED BY <1>2, <1>3, <1>4 DEF LookInProject

LEMMA LookInAccountKeeps == ASSUME Inv, LookInAccount PROVE Inv'
<1>1. cmd.pc = "account" /\ UNCHANGED <<world, late, commands>> /\ cmd.kind = "create"
  BY DEF LookInAccount, Inv, CommandOK, Provisioning
<1>2. CASE End(FALSE) BY <1>1, <1>2, EndKeeps
<1>3. CASE Go("create") /\ \A d \in Ids : ~Exists(d)
  <2>1. \A d \in Ids : ~Exists(d)' BY <1>1, <1>3, SameWorld
  <2>2. CommandOK' BY <2>1, <1>1, <1>3, GoIs DEF CommandOK, Provisioning, Steps, Inv
  <2>3. CreateOK'
    BY <1>3, GoIs DEF CreateOK, CreateLists, CreateReady, CreateFills, CreateMatches, Working, VolumeSteps, Checks, Steps
  <2> QED BY <2>2, <2>3, <1>1, <1>3, GoIs, StepKeeps DEF Steps
<1>4. ASSUME NEW d \in Ids, cmd' = [cmd EXCEPT !.pc = "assign", !.at = d], UNCHANGED outcome PROVE Inv'
  <2>1. /\ cmd' \in Commands
        /\ cmd'.pc = "assign" /\ cmd'.at = d /\ cmd'.kind = "create" /\ cmd'.tries = cmd.tries
    BY <1>1, <1>4 DEF Inv, TypeOK, Commands, Steps
  <2>2. CommandOK' BY <2>1, <1>1, <1>4, HostAssumption DEF CommandOK, Provisioning, Inv
  <2>3. CreateOK'
    BY <2>1 DEF CreateOK, CreateLists, CreateReady, CreateFills, CreateMatches, Working, VolumeSteps, Checks
  <2> QED BY <2>1, <2>2, <2>3, <1>1, <1>4, StepKeeps
<1> QED BY <1>2, <1>3, <1>4 DEF LookInAccount

LEMMA CreateDropletKeeps == ASSUME Inv, CreateDroplet PROVE Inv'
<1>1. cmd.pc = "create" /\ cmd.kind = "create" /\ UNCHANGED <<sshd, info, known, volume, taken, dns, public, late, commands>>
  BY DEF CreateDroplet, Inv, CommandOK, Provisioning
<1>2. \A d \in Ids : ~Exists(d) BY <1>1 DEF Inv, CommandOK
<1>3. CASE UNCHANGED droplet /\ End(FALSE) BY <1>1, <1>3, EndKeeps DEF world
<1>4. ASSUME NEW d \in Ids, NEW i \in Free,
             droplet' = [droplet EXCEPT ![d] = [state |-> "active", ip |-> i, project |-> "assigned"]],
             cmd' = [cmd EXCEPT !.pc = "assign", !.at = d], UNCHANGED outcome
      PROVE  Inv'
  <2>1. i \in Ips /\ i # NoIp BY HostAssumption DEF Free
  <2>2. /\ cmd' \in Commands
        /\ cmd'.pc = "assign" /\ cmd'.at = d /\ cmd'.kind = "create" /\ cmd'.tries = cmd.tries
    BY <1>1, <1>4 DEF Inv, TypeOK, Commands, Steps
  <2>3. droplet' \in [Ids -> Droplets] BY <1>4, <2>1 DEF Inv, TypeOK, Droplets, Address
  <2>4. TypeOK' BY <1>1, <1>4, <2>2, <2>3 DEF Inv, TypeOK
  <2>5. \A e \in Ids \ {d} : ~Exists(e)' BY <1>2, <1>4 DEF Exists
  <2>6. One' BY <2>5 DEF One
  <2>7. ActiveHasIp' BY <1>4, <2>1 DEF Inv, TypeOK, WorldOK, ActiveHasIp
  <2>8. WorldOK' BY <2>6, <2>7, <1>1 DEF WorldOK, VolumeOK, Inv
  <2>9. CommandOK' BY <2>2, <1>1, <1>4, HostAssumption DEF CommandOK, Provisioning, Inv
  <2>10. CreateOK'
    BY <2>2 DEF CreateOK, CreateLists, CreateReady, CreateFills, CreateMatches, Working, VolumeSteps, Checks
  <2>11. CreateDelivers' BY <1>1, <1>4 DEF CreateDelivers, Delivered, Inv, CommandOK
  <2> QED BY <2>4, <2>8, <2>9, <2>10, <2>11 DEF Inv
<1>5. ASSUME NEW d \in Ids, End(FALSE),
             droplet' = [droplet EXCEPT ![d] = [state |-> "new", ip |-> NoIp, project |-> "assigned"]]
      PROVE  Inv'
  <2>1. cmd' = Idle /\ outcome' = [kind |-> cmd.kind, ok |-> FALSE] BY <1>5 DEF End
  <2>2. outcome' \in [kind : Kinds, ok : BOOLEAN] BY <2>1 DEF Inv, TypeOK, Commands
  <2>3. droplet' \in [Ids -> Droplets] BY <1>5 DEF Inv, TypeOK, Droplets, Address
  <2>4. TypeOK' BY <1>1, <2>1, <2>2, <2>3, IdleIsCommand DEF Inv, TypeOK
  <2>5. \A e \in Ids \ {d} : ~Exists(e)' BY <1>2, <1>5 DEF Exists
  <2>6. One' BY <2>5 DEF One
  <2>7. ActiveHasIp' BY <1>5 DEF Inv, TypeOK, WorldOK, ActiveHasIp
  <2>8. WorldOK' BY <2>6, <2>7, <1>1 DEF WorldOK, VolumeOK, Inv
  <2>9. CommandOK' /\ CreateOK' BY <2>1, HostAssumption DEF CommandOK, Provisioning, CreateOK, Idle
  <2>10. CreateDelivers' BY <2>1 DEF CreateDelivers, Delivered
  <2> QED BY <2>4, <2>8, <2>9, <2>10 DEF Inv
<1> QED BY <1>3, <1>4, <1>5 DEF CreateDroplet

LEMMA AwaitListingKeeps == ASSUME Inv, AwaitListing PROVE Inv'
<1>1. cmd.pc = "await" /\ UNCHANGED <<world, late, commands>> /\ cmd.kind = "create" /\ cmd \in Commands
  BY DEF AwaitListing, Inv, TypeOK, CommandOK, Provisioning
<1>2. CASE End(FALSE) BY <1>1, <1>2, EndKeeps
<1>3. CASE Go("find") /\ \E d \in Ids : Listed(d)
  <2>0. \A d \in Ids : Exists(d) => Listed(d) BY <1>3 DEF Inv, WorldOK, One, Listed
  <2>1. CommandOK' BY <1>1, <1>3, GoIs DEF CommandOK, Provisioning, Steps, Inv
  <2>2. \A d \in Ids : Exists(d)' => Listed(d)' BY <1>1, <2>0, SameWorld
  <2>3. CreateOK'
    BY <2>2, <1>3, GoIs DEF CreateOK, CreateLists, CreateReady, CreateFills, CreateMatches,
      Working, VolumeSteps, Checks, Steps
  <2> QED BY <2>1, <2>3, <1>1, <1>3, GoIs, StepKeeps DEF Steps
<1>4. CASE cmd.tries + 1 # MaxAwait /\ cmd' = [cmd EXCEPT !.tries = @ + 1] /\ UNCHANGED outcome
  <2>1. cmd.tries \in Nat /\ cmd.tries + 1 < MaxAwait
    BY <1>1, <1>4, HostAssumption DEF Inv, CommandOK, Commands
  <2>2. cmd.tries + 1 \in 0..MaxAwait BY <2>1, HostAssumption
  <2>3. /\ cmd' \in Commands
        /\ cmd'.pc = "await" /\ cmd'.kind = "create" /\ cmd'.tries = cmd.tries + 1
    BY <1>1, <1>4, <2>2 DEF Commands
  <2>4. CommandOK' BY <2>1, <2>3, <1>1, <1>4 DEF CommandOK, Provisioning, Inv
  <2>5. CreateOK'
    BY <2>3 DEF CreateOK, CreateLists, CreateReady, CreateFills, CreateMatches, Working, VolumeSteps, Checks
  <2> QED BY <2>3, <2>4, <2>5, <1>1, <1>4, StepKeeps
<1> QED BY <1>2, <1>3, <1>4 DEF AwaitListing

----------------------------------------------------------------------------
(* cmd_env_host.                                                           *)

(* A lookup finds droplets that exist, and there is no second one.         *)
LEMMA FoundExists ==
  ASSUME Inv
  PROVE  /\ \A d \in Found : d \in Ids /\ Exists(d)
         /\ \A d \in Ids : Listed(d) => Found = {d}
<1>1. ASSUME NEW d \in Ids, Listed(d) PROVE Found = {d}
  <2>1. \A e \in Ids : Exists(e) => e = d BY <1>1 DEF Inv, WorldOK, One, Listed
  <2>2. {e \in Ids : Exists(e)} = {d} /\ {e \in Ids : Listed(e)} = {d} BY <1>1, <2>1 DEF Listed
  <2>3. Min({d}) = d
    <3>1. d <= d BY HostAssumption
    <3> QED BY <3>1 DEF Min
  <2> QED BY <2>2, <2>3 DEF Found
<1>2. ASSUME NEW d \in Found PROVE d \in Ids /\ Exists(d)
  <2>1. CASE \E e \in Ids : Listed(e) BY <1>1, <1>2, <2>1 DEF Listed
  <2>2. CASE \A e \in Ids : ~Listed(e) BY <1>2, <2>2 DEF Found
  <2> QED BY <2>1, <2>2
<1> QED BY <1>1, <1>2

LEMMA HostFailsKeeps ==
  ASSUME Inv, cmd.pc \in {"find", "known"}, HostFails, UNCHANGED <<world, late, commands>>
  PROVE  Inv'
<1>1. CASE End(FALSE) BY <1>1, EndKeeps
<1>2. CASE cmd.kind = "create" /\ Note("again")
  <2>1. CommandOK' BY <1>2, NoteIs DEF CommandOK, Provisioning, Steps, Inv
  <2>2. \A d \in Ids : Exists(d)' => Listed(d)' BY <1>2, SameWorld DEF Inv, CreateOK, CreateLists
  <2>3. CreateOK' BY <2>2, <1>2, NoteIs DEF CreateOK, CreateLists, Steps
  <2> QED BY <2>1, <2>3, <1>2, NoteIs, StepKeeps DEF Steps
<1> QED BY <1>1, <1>2 DEF HostFails

LEMMA ManualHostKeeps ==
  ASSUME Inv, cmd.pc = "find", ManualHost, UNCHANGED <<world, late, commands>>
  PROVE  Inv'
<1>1. CASE HostFails BY <1>1, HostFailsKeeps
<1>2. CASE /\ cmd.kind \in {"check", "sync"}
           /\ cmd' = [cmd EXCEPT !.pc = "public", !.ip = info]
           /\ UNCHANGED outcome
  <2>1. /\ cmd' \in Commands
        /\ cmd'.pc = "public" /\ cmd'.kind # "create" /\ cmd'.tries = cmd.tries
    BY <1>2 DEF Inv, TypeOK, Commands, Steps
  <2>2. CommandOK' BY <2>1, <1>2 DEF CommandOK, Provisioning, Inv
  <2>3. CreateOK' BY <2>1 DEF CreateOK
  <2> QED BY <2>1, <2>2, <2>3, <1>2, StepKeeps
<1> QED BY <1>1, <1>2 DEF ManualHost

LEMMA FindFailsKeeps == ASSUME Inv, FindNothing \/ NoDoctl \/ FindErrs \/ FindUnready PROVE Inv'
BY HostFailsKeeps, ManualHostKeeps DEF FindNothing, NoDoctl, FindErrs, FindUnready

LEMMA FindDropletKeeps == ASSUME Inv, FindDroplet PROVE Inv'
<1>1. PICK d \in Found :
        /\ droplet[d].state = "active" /\ droplet[d].ip # NoIp
        /\ info' = Patched(d)
        /\ cmd' = [cmd EXCEPT !.ip = droplet[d].ip, !.sites = Sites,
                      !.pc = CASE cmd.kind = "sync" -> "dns"
                               [] cmd.kind = "check" -> "verify"
                               [] OTHER -> "known"]
  BY DEF FindDroplet
<1>2. cmd.pc = "find" /\ UNCHANGED <<droplet, sshd, known, volume, taken, dns, public, outcome, late, commands>>
  BY DEF FindDroplet
<1>3. d \in Ids BY FoundExists
<1>4. droplet[d].ip \in Address BY <1>3 DEF Inv, TypeOK, Droplets
<1>5. /\ cmd' \in Commands
      /\ cmd'.kind = cmd.kind /\ cmd'.tries = cmd.tries /\ cmd'.ip = droplet[d].ip
      /\ cmd'.pc = IF cmd.kind = "sync" THEN "dns" ELSE IF cmd.kind = "check" THEN "verify" ELSE "known"
  BY <1>1, <1>4 DEF Inv, TypeOK, Commands, Steps
<1>6. cmd.kind \in Kinds BY DEF Inv, TypeOK, Commands
<1>7. TypeOK' BY <1>1, <1>2, <1>4, <1>5 DEF Inv, TypeOK, Patched
<1>8. WorldOK' BY <1>2 DEF Inv, WorldOK, One, Exists, ActiveHasIp, VolumeOK
<1>9. CommandOK'
  <2>1. cmd'.pc = "known" => info' = cmd'.ip BY <1>1, <1>5, <1>6 DEF Patched, Kinds
  <2>2. \A e \in Ids : Exists(e)' => Up(e)'
    <3>1. \A e \in Ids : Exists(e) => e = d BY <1>3, FoundExists DEF Inv, WorldOK, One
    <3> QED BY <3>1, <1>1, <1>2, <1>5 DEF Up, Exists
  <2> QED BY <2>1, <2>2, <1>2, <1>3, <1>5 DEF CommandOK, Provisioning, Inv
<1>10. CreateOK'
  <2>1. cmd.kind = "create" => cmd'.pc = "known" BY <1>5
  <2>2. cmd.kind = "create" => \A e \in Ids : Exists(e)' => Listed(e)'
    BY <1>2 DEF Inv, CreateOK, CreateLists, Listed, Exists
  <2> QED BY <2>1, <2>2, <1>5 DEF CreateOK, CreateLists, CreateReady, CreateFills, CreateMatches, Working, VolumeSteps, Checks
<1>11. CreateDelivers' BY <1>2 DEF CreateDelivers, Delivered, Inv, CommandOK
<1> QED BY <1>7, <1>8, <1>9, <1>10, <1>11 DEF Inv

LEMMA KnowHostKeeps == ASSUME Inv, KnowHost PROVE Inv'
<1>1. /\ cmd.pc = "known" /\ info = cmd.ip
      /\ UNCHANGED <<droplet, sshd, info, volume, taken, dns, public, late, commands>>
  BY DEF KnowHost, Inv, CommandOK
<1>2. \A d \in Ids : Exists(d) => Up(d) BY <1>1 DEF Inv, CommandOK
<1>4. known' \subseteq Ips \X Ids /\ \E f \in Ids : <<info, f>> \in known'
  <2>1. CASE HasEntry(cmd.ip) /\ UNCHANGED known BY <1>1, <2>1 DEF HasEntry, Inv, TypeOK
  <2>2. ASSUME NEW e \in sshd, Exists(e), known' = known \cup {<<cmd.ip, e>>}
        PROVE  known' \subseteq Ips \X Ids /\ \E f \in Ids : <<info, f>> \in known'
    <3>1. e \in Ids /\ Up(e) BY <1>2, <2>2 DEF Inv, TypeOK
    <3>2. info \in Ips BY <1>1, <3>1 DEF Inv, TypeOK, WorldOK, ActiveHasIp, Up, Address
    <3> QED BY <1>1, <2>2, <3>1, <3>2 DEF Inv, TypeOK
  <2> QED BY <2>1, <2>2 DEF KnowHost
<1>5. HasEntry(info)' BY <1>1, <1>4 DEF HasEntry
<1>6. WorldOK' BY <1>1 DEF Inv, WorldOK, One, Exists, ActiveHasIp, VolumeOK
<1>7. CASE cmd.kind = "create" /\ Go("again")
  <2>1. TypeOK' BY <1>1, <1>4, <1>7, GoIs DEF Inv, TypeOK, Steps
  <2>2. CommandOK' BY <1>1, <1>7, GoIs DEF CommandOK, Provisioning, Steps, Inv
  <2>3. \A e \in Ids : Exists(e) => Listed(e) BY <1>1, <1>7 DEF Inv, CreateOK, CreateLists
  <2>5. \A e \in Ids : Exists(e)' => Listed(e)' /\ Ready(e)'
    BY <1>1, <1>2, <1>5, <2>3 DEF Ready, Listed, Exists, Up
  <2>6. CreateOK'
    BY <2>5, <1>7, GoIs DEF CreateOK, CreateLists, CreateReady, CreateFills, CreateMatches,
      Working, VolumeSteps, Checks, Steps
  <2>7. CreateDelivers' BY <1>1, <1>7, GoIs DEF CreateDelivers, Delivered, Inv, CommandOK, Steps
  <2> QED BY <2>1, <2>2, <2>6, <2>7, <1>6 DEF Inv
<1>8. CASE cmd.kind # "create" /\ End(TRUE)
  <2>1. cmd' = Idle /\ outcome' = [kind |-> cmd.kind, ok |-> TRUE] BY <1>8 DEF End
  <2>2. outcome' \in [kind : Kinds, ok : BOOLEAN] BY <2>1 DEF Inv, TypeOK, Commands
  <2>3. TypeOK' BY <1>1, <1>4, <2>1, <2>2, IdleIsCommand DEF Inv, TypeOK
  <2>4. CommandOK' /\ CreateOK' BY <2>1, HostAssumption DEF CommandOK, Provisioning, CreateOK, Idle
  <2>5. CreateDelivers' BY <2>1, <1>8 DEF CreateDelivers, Delivered
  <2> QED BY <2>3, <2>4, <2>5, <1>6 DEF Inv
<1> QED BY <1>7, <1>8 DEF KnowHost

LEMMA KnowTimesOutKeeps == ASSUME Inv, KnowTimesOut PROVE Inv'
BY HostFailsKeeps DEF KnowTimesOut

----------------------------------------------------------------------------
(* _finish_host_provisioning.                                              *)

(* What is ready stays so while nothing of it changes.                     *)
LEMMA ReadyStays ==
  ASSUME UNCHANGED <<droplet, info, known>>
  PROVE  \A d \in Ids : Ready(d)' = Ready(d) /\ Listed(d)' = Listed(d) /\ Exists(d)' = Exists(d)
BY DEF Ready, Listed, Exists, HasEntry

(* A step after which a failure is noted needs no more than the droplet.   *)
LEMMA NotedIsOK ==
  ASSUME Inv, cmd.kind = "create", cmd.pc \in Working \cup {"again"}, UNCHANGED <<droplet, info, known>>,
         cmd'.failed, cmd.pc \in Checks => cmd'.pc \in Checks
  PROVE  CreateOK'
<1>1. CASE cmd.pc \in Checks BY <1>1 DEF CreateOK, CreateLists, Checks, VolumeSteps
<1>2. CASE cmd.pc \notin Checks
  <2>1. \A d \in Ids : Exists(d) => Listed(d) BY <1>2 DEF Inv, CreateOK, CreateLists, Working
  <2>2. \A d \in Ids : Exists(d)' => Listed(d)' BY <2>1, ReadyStays
  <2> QED BY <2>2 DEF CreateOK, CreateLists
<1> QED BY <1>1, <1>2

LEMMA FindAgainKeeps == ASSUME Inv, FindAgain PROVE Inv'
<1>1. cmd.pc = "again" /\ UNCHANGED <<world, late, commands>> /\ cmd.kind = "create"
  BY DEF FindAgain, Inv, CommandOK, Provisioning
<1>2. CASE End(FALSE) BY <1>1, <1>2, EndKeeps
<1>3. ASSUME NEW d \in Found, droplet[d].ip # NoIp, UNCHANGED outcome,
             cmd' = [cmd EXCEPT !.ip = droplet[d].ip, !.vols = Volumes, !.sites = Sites,
                           !.pc = IF Volumes = {} THEN "dns" ELSE "attached"]
      PROVE  Inv'
  <2>1. d \in Ids /\ Exists(d) BY FoundExists
  <2>2. droplet[d].ip \in Address BY <2>1 DEF Inv, TypeOK, Droplets
  <2>3. /\ cmd' \in Commands
        /\ cmd'.pc = IF Volumes = {} THEN "dns" ELSE "attached"
        /\ cmd'.kind = "create" /\ cmd'.tries = cmd.tries /\ cmd'.ip = droplet[d].ip
        /\ cmd'.vols = Volumes
    BY <1>1, <1>3, <2>2 DEF Inv, TypeOK, Commands, Steps
  <2>31. cmd.failed => cmd'.failed BY <1>3 DEF Inv, TypeOK, Commands
  <2>4. CommandOK' BY <2>3, <1>1, <1>3 DEF CommandOK, Provisioning, Inv
  <2>5. UNCHANGED <<droplet, info, known>> BY <1>1 DEF world
  <2>6. ASSUME cmd.failed PROVE CreateOK' BY <1>1, <2>31, <2>5, <2>6, NotedIsOK DEF Checks
  <2>7. ASSUME ~cmd.failed PROVE CreateOK'
    <3>1. \A e \in Ids : Exists(e) => Ready(e) BY <1>1, <2>7 DEF Inv, CreateOK, CreateReady
    <3>2. \A e \in Ids : Exists(e)' => Ready(e)' /\ Listed(e)' BY <2>5, <3>1, ReadyStays DEF Ready
    <3>3. Ready(d)' /\ cmd'.ip = info' /\ Exists(d)'
      BY <2>1, <2>3, <2>5, <3>1, ReadyStays DEF Ready
    <3>4. CreateFills' BY <2>1, <2>3, <3>3 DEF CreateFills, Checks
    <3>5. CreateLists' BY <2>1, <3>2 DEF CreateLists
    <3>6. CreateReady' BY <2>1, <2>3, <3>2, <3>3 DEF CreateReady
    <3>7. CreateMatches' BY <2>3 DEF CreateMatches
    <3> QED BY <3>4, <3>5, <3>6, <3>7 DEF CreateOK
  <2> QED BY <2>3, <2>4, <2>6, <2>7, <1>1, <1>3, StepKeeps
<1> QED BY <1>2, <1>3 DEF FindAgain

LEMMA VolumeTargetKeeps == ASSUME Inv, VolumeTarget PROVE Inv'
<1>1. cmd.pc = "attached" /\ UNCHANGED <<world, outcome, late, commands>> /\ cmd.kind = "create"
  BY DEF VolumeTarget, Inv, CommandOK, Provisioning
<1>2. UNCHANGED <<droplet, info, known>> BY <1>1 DEF world
<1>3. CASE cmd' = [AfterVolumes EXCEPT !.failed = TRUE]
  <2>1. /\ cmd' \in Commands
        /\ cmd'.pc = "dns" /\ cmd'.kind = "create" /\ cmd'.tries = cmd.tries /\ cmd'.failed
    BY <1>1, <1>3 DEF AfterVolumes, Inv, TypeOK, Commands, Steps
  <2>2. CommandOK' BY <2>1, <1>1 DEF CommandOK, Provisioning, Inv
  <2>3. CreateOK' BY <1>1, <1>2, <2>1, NotedIsOK DEF Working, VolumeSteps, Checks
  <2> QED BY <2>1, <2>2, <2>3, <1>1, StepKeeps
<1>4. ASSUME NEW d \in Found, cmd' = [cmd EXCEPT !.pc = "ensure", !.at = d] PROVE Inv'
  <2>1. d \in Ids /\ Exists(d) BY FoundExists
  <2>2. /\ cmd' \in Commands
        /\ cmd'.pc = "ensure" /\ cmd'.kind = "create" /\ cmd'.tries = cmd.tries 
        /\ cmd'.at = d /\ cmd'.vols = cmd.vols /\ cmd'.ip = cmd.ip
    BY <1>1, <1>4, <2>1 DEF Inv, TypeOK, Commands, Steps
  <2>21. cmd.failed => cmd'.failed BY <1>4 DEF Inv, TypeOK, Commands
  <2>3. CommandOK' BY <2>1, <2>2, <1>1, HostAssumption DEF CommandOK, Provisioning, Inv
  <2>4. ASSUME cmd.failed PROVE CreateOK' BY <1>1, <1>2, <2>21, <2>4, NotedIsOK DEF Working, VolumeSteps, Checks
  <2>5. ASSUME ~cmd.failed PROVE CreateOK'
    <3>1. cmd.vols = Volumes /\ cmd.ip = info /\ \A e \in Ids : Exists(e) => Ready(e)
      BY <1>1, <2>5 DEF Inv, CreateOK, CreateFills, CreateReady, Working, VolumeSteps
    <3>2. \A e \in Ids : Exists(e)' => Ready(e)' /\ Listed(e)' BY <1>2, <3>1, ReadyStays DEF Ready
    <3>5. CreateLists' BY <3>2 DEF CreateLists
    <3>6. CreateReady' BY <1>2, <2>2, <3>1, <3>2 DEF CreateReady, Checks
    <3>7. CreateFills' BY <2>2, <3>1 DEF CreateFills, Checks
    <3>8. CreateMatches' BY <2>2 DEF CreateMatches
    <3> QED BY <3>5, <3>6, <3>7, <3>8 DEF CreateOK
  <2> QED BY <2>2, <2>3, <2>4, <2>5, <1>1, StepKeeps
<1> QED BY <1>3, <1>4 DEF VolumeTarget

(* The steps of the volumes: what the command says of them is left to show.*)
LEMMA VolumeStepKeeps ==
  ASSUME Inv, cmd.pc \in {"ensure", "attach", "mount"},
         UNCHANGED <<droplet, sshd, info, known, taken, dns, public, outcome, late, commands>>,
         volume' \in [Volumes -> VolumeStates], VolumeOK',
         cmd' \in Commands, cmd'.pc \in {"ensure", "attach", "mount", "dns"},
         cmd'.kind = cmd.kind, cmd'.tries = cmd.tries, cmd'.ip = cmd.ip, cmd'.at = cmd.at,
         cmd.failed => cmd'.failed, ~cmd'.failed => CreateFills'
  PROVE  Inv'
<1>1. cmd.kind = "create" /\ cmd.at # 0 BY DEF Inv, CommandOK, Provisioning
<1>2. TypeOK' BY DEF Inv, TypeOK
<1>3. WorldOK' BY DEF Inv, WorldOK, One, Exists, ActiveHasIp
<1>4. CommandOK' BY <1>1 DEF CommandOK, Provisioning, Inv
<1>5. CreateDelivers' BY DEF CreateDelivers, Delivered, Inv, CommandOK
<1>6. CASE cmd'.failed
  <2>1. CreateOK' BY <1>1, <1>6, NotedIsOK DEF Working, VolumeSteps, Checks
  <2> QED BY <2>1, <1>2, <1>3, <1>4, <1>5 DEF Inv
<1>7. CASE ~cmd'.failed
  <2>1. ~cmd.failed /\ CreateFills' BY <1>7
  <2>2. cmd.ip = info /\ \A d \in Ids : Exists(d) => Ready(d)
    BY <1>1, <2>1 DEF Inv, CreateOK, CreateReady, Working, VolumeSteps
  <2>4. \A d \in Ids : Exists(d)' => Ready(d)' /\ Listed(d)' BY <2>2, ReadyStays DEF Ready
  <2>5. CreateLists' BY <2>4 DEF CreateLists
  <2>6. CreateReady'
    <3>1. cmd'.pc \in Checks /\ ~late' => \E d \in Ids : Ready(d)' BY <2>1, <2>4 DEF CreateFills
    <3> QED BY <2>2, <2>4, <3>1 DEF CreateReady
  <2>7. CreateMatches' BY DEF CreateMatches
  <2>8. CreateOK' BY <2>1, <2>5, <2>6, <2>7 DEF CreateOK
  <2> QED BY <2>8, <1>2, <1>3, <1>4, <1>5 DEF Inv
<1> QED BY <1>6, <1>7

LEMMA EnsureVolumeKeeps == ASSUME Inv, EnsureVolume PROVE Inv'
<1>1. /\ cmd.pc = "ensure" /\ cmd.kind = "create" /\ Go("attach")
      /\ UNCHANGED <<droplet, sshd, info, known, taken, dns, public, late, commands>>
  BY DEF EnsureVolume, Inv, CommandOK, Provisioning
<1>2. PICK v \in cmd.vols : volume' = [volume EXCEPT ![v].made = TRUE] BY DEF EnsureVolume
<1>3. v \in Volumes BY DEF Inv, TypeOK, Commands
<1>4. /\ volume' \in [Volumes -> VolumeStates]
      /\ \A u \in Volumes : volume'[u].formats = volume[u].formats /\ volume'[u].mounted = volume[u].mounted
  BY <1>2, <1>3 DEF Inv, TypeOK, VolumeStates
<1>5. VolumeOK' BY <1>4 DEF Inv, WorldOK, VolumeOK
<1>6. cmd.failed => cmd'.failed BY <1>1 DEF Go, Inv, TypeOK, Commands
<1>7. ASSUME ~cmd'.failed PROVE CreateFills'
  <2>1. Exists(cmd.at) => \A u \in Volumes \ cmd.vols : Filled(u, cmd.at)
    BY <1>1, <1>6, <1>7 DEF Inv, CreateOK, CreateFills
  <2> QED BY <2>1, <1>1, <1>4, GoIs DEF CreateFills, Filled, PathServed, Exists, Steps, Checks
<1> QED BY <1>1, <1>4, <1>5, <1>6, <1>7, GoIs, VolumeStepKeeps DEF Steps

LEMMA AttachVolumeKeeps == ASSUME Inv, AttachVolume PROVE Inv'
<1>1. /\ cmd.pc = "attach" /\ cmd.kind = "create" /\ cmd.at # 0
      /\ UNCHANGED <<droplet, sshd, info, known, taken, dns, public, late, commands>>
  BY DEF AttachVolume, Inv, CommandOK, Provisioning
<1>2. CASE cmd' = [AfterVolumes EXCEPT !.failed = TRUE] /\ UNCHANGED <<volume, outcome>>
  <2>1. /\ cmd' \in Commands /\ cmd'.failed
        /\ cmd'.pc = "dns" /\ cmd'.kind = cmd.kind /\ cmd'.tries = cmd.tries /\ cmd'.ip = cmd.ip /\ cmd'.at = cmd.at
    BY <1>2 DEF AfterVolumes, Inv, TypeOK, Commands, Steps
  <2>2. volume' \in [Volumes -> VolumeStates] /\ VolumeOK' BY <1>2 DEF Inv, TypeOK, WorldOK, VolumeOK
  <2> QED BY <2>1, <2>2, <1>1, <1>2, VolumeStepKeeps
<1>3. ASSUME NEW v \in cmd.vols, volume' = [volume EXCEPT ![v].on = cmd.at], Go("mount") PROVE Inv'
  <2>1. v \in Volumes /\ cmd.at \in Ids \cup {0} BY DEF Inv, TypeOK, Commands
  <2>2. /\ volume' \in [Volumes -> VolumeStates]
        /\ \A u \in Volumes : volume'[u].formats = volume[u].formats /\ volume'[u].mounted = volume[u].mounted
    BY <1>3, <2>1 DEF Inv, TypeOK, VolumeStates
  <2>3. VolumeOK' BY <2>2 DEF Inv, WorldOK, VolumeOK
  <2>4. cmd.failed => cmd'.failed BY <1>3 DEF Go, Inv, TypeOK, Commands
  <2>5. ASSUME ~cmd'.failed PROVE CreateFills'
    <3>1. Exists(cmd.at) => \A u \in Volumes \ cmd.vols : Filled(u, cmd.at)
      BY <1>1, <2>4, <2>5 DEF Inv, CreateOK, CreateFills
    <3> QED BY <3>1, <1>1, <1>3, <2>2, GoIs DEF CreateFills, Filled, PathServed, Exists, Steps, Checks
  <2> QED BY <1>1, <1>3, <2>2, <2>3, <2>4, <2>5, GoIs, VolumeStepKeeps DEF Steps
<1> QED BY <1>2, <1>3 DEF AttachVolume

LEMMA MountVolumeKeeps == ASSUME Inv, MountVolume PROVE Inv'
<1>1. /\ cmd.pc = "mount" /\ cmd.kind = "create" /\ cmd.at # 0
      /\ UNCHANGED <<droplet, sshd, info, known, taken, dns, public, outcome, late, commands>>
  BY DEF MountVolume, Inv, CommandOK, Provisioning
<1>2. PICK v \in cmd.vols :
        /\ volume[v].on = cmd.at /\ cmd.at \in Reached
        /\ \/ InUse(v) /\ UNCHANGED volume
           \/ ~InUse(v) /\ \E n \in Formats(v) : volume' = [volume EXCEPT ![v] = InFstab(v, n)]
        /\ cmd' = IF cmd.vols = {v} THEN AfterVolumes
                  ELSE [cmd EXCEPT !.pc = "ensure", !.vols = @ \ {v}]
  BY DEF MountVolume
<1>3. v \in Volumes /\ cmd.at \in Ids \cup {0} BY DEF Inv, TypeOK, Commands
<1>4. /\ volume' \in [Volumes -> VolumeStates]
      /\ volume'[v].mounted # 0 => volume'[v].formats > 0
      /\ volume'[v].mounted = cmd.at \/ <<cmd.at, v>> \in taken
      /\ \A u \in Volumes \ {v} : volume'[u] = volume[u]
  <2>1. CASE InUse(v) /\ UNCHANGED volume
    BY <2>1, <1>1, <1>2, <1>3 DEF InUse, Inv, TypeOK, WorldOK, VolumeOK
  <2>2. ASSUME NEW n \in Formats(v), volume' = [volume EXCEPT ![v] = InFstab(v, n)]
        PROVE  /\ volume' \in [Volumes -> VolumeStates] /\ volume'[v].formats > 0
               /\ volume'[v].mounted = cmd.at
               /\ \A u \in Volumes \ {v} : volume'[u] = volume[u]
    <3>1. volume \in [Volumes -> VolumeStates] BY DEF Inv, TypeOK
    <3> QED BY <2>2, <3>1, <1>2, <1>3, MountedIs
  <2> QED BY <2>1, <2>2, <1>2
<1>5. VolumeOK' BY <1>4 DEF Inv, WorldOK, VolumeOK
<1>6. /\ cmd' \in Commands
      /\ cmd'.kind = cmd.kind /\ cmd'.tries = cmd.tries /\ cmd'.ip = cmd.ip /\ cmd'.at = cmd.at
      /\ cmd.failed => cmd'.failed
      /\ \/ cmd'.pc = "dns" /\ cmd.vols = {v}
         \/ cmd'.pc = "ensure" /\ cmd'.vols = cmd.vols \ {v}
  <2>1. CASE cmd.vols = {v}
    <3>1. cmd' = AfterVolumes BY <1>2, <2>1
    <3> QED BY <2>1, <3>1 DEF AfterVolumes, Inv, TypeOK, Commands, Steps
  <2>2. CASE cmd.vols # {v}
    <3>1. cmd' = [cmd EXCEPT !.pc = "ensure", !.vols = @ \ {v}] BY <1>2, <2>2
    <3> QED BY <3>1 DEF Inv, TypeOK, Commands, Steps
  <2> QED BY <2>1, <2>2
<1>7. ASSUME ~cmd'.failed PROVE CreateFills'
  <2>1. Exists(cmd.at) => \A u \in Volumes \ cmd.vols : Filled(u, cmd.at)
    BY <1>1, <1>6, <1>7 DEF Inv, CreateOK, CreateFills
  <2>4. cmd.at \in Ids /\ Exists(cmd.at) BY <1>1, <1>2, <1>3 DEF Reached, Exists
  <2>2. \A u \in Volumes \ (cmd.vols \ {v}) : Filled(u, cmd.at)'
    BY <2>1, <2>4, <1>1, <1>3, <1>4, <1>6 DEF Filled, PathServed
  <2>3. Exists(cmd.at)' BY <2>4, <1>1, <1>6 DEF Exists
  <2>5. CASE cmd'.pc = "dns" /\ cmd.vols = {v}
    <3>1. \A u \in Volumes : Filled(u, cmd.at)' BY <2>2, <2>5
    <3>2. \E d \in Ids : Exists(d)' /\ \A u \in Volumes : Filled(u, d)'
      BY <3>1, <2>3, <2>4, <1>6
    <3> QED BY <3>2, <2>5 DEF CreateFills
  <2>6. CASE cmd'.pc = "ensure" /\ cmd'.vols = cmd.vols \ {v}
    BY <2>2, <2>6, <1>6 DEF CreateFills, Checks, Filled, PathServed
  <2> QED BY <2>5, <2>6, <1>6
<1> QED BY <1>1, <1>4, <1>5, <1>6, <1>7, VolumeStepKeeps

LEMMA MountFailsKeeps == ASSUME Inv, MountFails PROVE Inv'
<1>1. /\ cmd.pc = "mount" /\ cmd.kind = "create"
      /\ cmd' = [AfterVolumes EXCEPT !.failed = TRUE]
      /\ UNCHANGED <<droplet, sshd, info, known, taken, dns, public, outcome, late, commands>>
  BY DEF MountFails, Inv, CommandOK, Provisioning
<1>2. /\ cmd' \in Commands /\ cmd'.failed
      /\ cmd'.pc = "dns" /\ cmd'.kind = cmd.kind /\ cmd'.tries = cmd.tries /\ cmd'.ip = cmd.ip /\ cmd'.at = cmd.at
  BY <1>1 DEF AfterVolumes, Inv, TypeOK, Commands, Steps
<1>3. volume' \in [Volumes -> VolumeStates] /\ VolumeOK' BY ScriptLeaves DEF MountFails
<1> QED BY <1>1, <1>2, <1>3, VolumeStepKeeps

(* The records: a noted failure ends what the checks can vouch for.        *)
LEMMA RecordStepKeeps ==
  ASSUME Inv, cmd.pc = "dns",
         UNCHANGED <<droplet, sshd, info, known, volume, taken, public, outcome, late, commands>>,
         dns' \in [Sites -> Records],
         cmd' \in Commands, cmd'.pc \in {"dns", "verify"},
         cmd'.kind = cmd.kind, cmd'.tries = cmd.tries, cmd'.ip = cmd.ip,
         cmd.failed => cmd'.failed
  PROVE  Inv'
<1>1. TypeOK' BY DEF Inv, TypeOK
<1>2. WorldOK' BY DEF Inv, WorldOK, One, Exists, ActiveHasIp, VolumeOK
<1>3. CommandOK' BY DEF CommandOK, Provisioning, Inv
<1>4. CreateDelivers' BY DEF CreateDelivers, Delivered, Inv, CommandOK
<1>5. ASSUME cmd.kind = "create" PROVE CreateOK'
  <2>1. CASE cmd'.failed BY <1>5, <2>1, NotedIsOK DEF Working, VolumeSteps, Checks
  <2>2. CASE ~cmd'.failed
    <3>1. CreateReady /\ CreateFills BY <1>5, <2>2 DEF Inv, CreateOK
    <3>3. cmd.ip = info /\ (~late => \E d \in Ids : Ready(d)') BY <3>1, ReadyStays DEF CreateReady, Working, Checks
    <3>4. CreateLists' BY DEF CreateLists, VolumeSteps
    <3>5. CreateReady' BY <3>3 DEF CreateReady, VolumeSteps
    <3>6. CreateFills' BY <3>1 DEF CreateFills, Exists, Filled, PathServed, Checks
    <3>7. CreateMatches' BY DEF CreateMatches
    <3> QED BY <3>4, <3>5, <3>6, <3>7 DEF CreateOK
  <2> QED BY <2>1, <2>2
<1>6. CreateOK' BY <1>5 DEF CreateOK
<1> QED BY <1>1, <1>2, <1>3, <1>4, <1>6 DEF Inv

LEMMA UpsertIsRecord ==
  ASSUME Inv, NEW s \in Sites
  PROVE  /\ Upsert(s) \in [Sites -> Records]
         /\ [dns EXCEPT ![s].legacy = FALSE] \in [Sites -> Records]
<1>1. cmd.ip \in Address /\ dns \in [Sites -> Records] BY DEF Inv, TypeOK, Commands
<1> QED BY <1>1 DEF Upsert, Records

LEMMA SyncRecordKeeps == ASSUME Inv, SyncRecord PROVE Inv'
<1>1. cmd.pc = "dns" /\ UNCHANGED <<droplet, sshd, info, known, volume, taken, public, outcome, late, commands>>
  BY DEF SyncRecord
<1>2. PICK s \in cmd.sites : dns' = Upsert(s) /\ cmd' = [cmd EXCEPT !.sites = @ \ {s}] BY DEF SyncRecord
<1>3. s \in Sites BY DEF Inv, TypeOK, Commands
<1>4. dns' \in [Sites -> Records] BY <1>2, <1>3, UpsertIsRecord
<1>5. /\ cmd' \in Commands /\ cmd'.pc = "dns"
      /\ cmd'.kind = cmd.kind /\ cmd'.tries = cmd.tries /\ cmd'.ip = cmd.ip
      /\ cmd.failed => cmd'.failed
  BY <1>1, <1>2 DEF Inv, TypeOK, Commands
<1> QED BY <1>1, <1>4, <1>5, RecordStepKeeps

LEMMA SyncEndsKeeps ==
  ASSUME Inv, cmd.pc = "dns", cmd.kind # "create", NEW ok \in BOOLEAN, End(ok),
         UNCHANGED <<droplet, sshd, info, known, volume, taken, public, late, commands>>,
         dns' \in [Sites -> Records]
  PROVE  Inv'
<1>1. cmd' = Idle /\ outcome' = [kind |-> cmd.kind, ok |-> ok] BY DEF End
<1>2. outcome' \in [kind : Kinds, ok : BOOLEAN] BY <1>1 DEF Inv, TypeOK, Commands
<1>3. TypeOK' BY <1>1, <1>2, IdleIsCommand DEF Inv, TypeOK
<1>4. WorldOK' BY DEF Inv, WorldOK, One, Exists, ActiveHasIp, VolumeOK
<1>5. CommandOK' /\ CreateOK' BY <1>1, HostAssumption DEF CommandOK, Provisioning, CreateOK, Idle
<1>6. CreateDelivers' BY <1>1 DEF CreateDelivers, Delivered
<1> QED BY <1>3, <1>4, <1>5, <1>6 DEF Inv

LEMMA SyncFailsKeeps == ASSUME Inv, SyncFails PROVE Inv'
<1>1. cmd.pc = "dns" /\ UNCHANGED <<droplet, sshd, info, known, volume, taken, public, late, commands>>
  BY DEF SyncFails
<1>2. PICK s \in cmd.sites : dns' \in {dns, [dns EXCEPT ![s].legacy = FALSE]} BY DEF SyncFails
<1>3. s \in Sites /\ dns \in [Sites -> Records] BY DEF Inv, TypeOK, Commands
<1>4. dns' \in [Sites -> Records] BY <1>2, <1>3, UpsertIsRecord
<1>5. CASE cmd.kind = "sync" /\ End(FALSE) BY <1>1, <1>4, <1>5, SyncEndsKeeps
<1>6. CASE Note("verify") BY <1>1, <1>4, <1>6, NoteIs, RecordStepKeeps DEF Steps
<1> QED BY <1>5, <1>6 DEF SyncFails

LEMMA SyncDoneKeeps == ASSUME Inv, SyncDone PROVE Inv'
<1>1. cmd.pc = "dns" /\ UNCHANGED <<droplet, sshd, info, known, volume, taken, dns, public, late, commands>>
  BY DEF SyncDone, world
<1>2. dns' \in [Sites -> Records] BY <1>1 DEF Inv, TypeOK
<1>3. CASE cmd.kind = "sync" /\ End(TRUE) BY <1>1, <1>2, <1>3, SyncEndsKeeps
<1>4. CASE Go("verify")
  <2>1. cmd.failed => cmd'.failed BY <1>4 DEF Go, Inv, TypeOK, Commands
  <2> QED BY <2>1, <1>1, <1>2, <1>4, GoIs, RecordStepKeeps DEF Steps
<1> QED BY <1>3, <1>4 DEF SyncDone

LEMMA VerifyRecordsKeeps == ASSUME Inv, VerifyRecords PROVE Inv'
<1>1. cmd.pc = "verify" /\ UNCHANGED <<world, late, commands>> BY DEF VerifyRecords
<1>2. UNCHANGED <<droplet, info, known, volume, taken, dns, late>> BY <1>1 DEF world
<1>3. CASE Note("public")
  <2>1. CommandOK' BY <1>1, <1>3, NoteIs DEF CommandOK, Provisioning, Steps, Inv
  <2>2. CreateOK'
    <3>1. CASE cmd.kind = "create" BY <3>1, <1>1, <1>2, <1>3, NoteIs, NotedIsOK DEF Working, VolumeSteps, Checks, Steps
    <3>2. CASE cmd.kind # "create" BY <3>2, <1>3, NoteIs DEF CreateOK, Steps
    <3> QED BY <3>1, <3>2
  <2> QED BY <2>1, <2>2, <1>1, <1>3, NoteIs, StepKeeps DEF Steps
<1>4. CASE Go("public") /\ RecordsMatch
  <2>1. CommandOK' BY <1>1, <1>4, GoIs DEF CommandOK, Provisioning, Steps, Inv
  <2>2. ASSUME cmd.kind = "create", ~cmd.failed PROVE CreateOK'
    <3>1. CreateReady /\ CreateFills BY <2>2 DEF Inv, CreateOK
    <3>3. cmd.ip = info /\ (~late => \E d \in Ids : Ready(d)')
      BY <1>1, <1>2, <3>1, ReadyStays DEF CreateReady, Working, Checks
    <3>4. CreateLists' BY <1>4, GoIs DEF CreateLists, VolumeSteps, Steps
    <3>5. CreateReady' BY <1>1, <1>2, <1>4, <3>3, GoIs DEF CreateReady, VolumeSteps, Steps
    <3>6. CreateFills' BY <1>1, <1>2, <1>4, <3>1, GoIs DEF CreateFills, Exists, Filled, PathServed, Checks, Steps
    <3>7. CreateMatches' BY <1>1, <1>2, <1>4, GoIs, SameWorld DEF CreateMatches, RecordsMatch, Steps
    <3> QED BY <3>4, <3>5, <3>6, <3>7 DEF CreateOK
  <2>3. ASSUME cmd.failed, cmd.kind = "create" PROVE CreateOK'
    <3>1. cmd'.failed BY <1>4, <2>3 DEF Go, Inv, TypeOK, Commands
    <3> QED BY <3>1, <2>3, <1>1, <1>2, <1>4, GoIs, NotedIsOK DEF Working, VolumeSteps, Checks, Steps
  <2>4. ASSUME cmd.kind # "create" PROVE CreateOK' BY <2>4, <1>4, GoIs DEF CreateOK, Steps
  <2> QED BY <2>1, <2>2, <2>3, <2>4, <1>1, <1>4, GoIs, StepKeeps DEF Steps
<1> QED BY <1>3, <1>4 DEF VerifyRecords

LEMMA VerifyPublicKeeps == ASSUME Inv, VerifyPublic PROVE Inv'
<1> DEFINE ok == ~cmd.failed /\ PublicMatches
<1>1. cmd.pc = "public" /\ End(ok) /\ UNCHANGED <<world, late, commands>> BY DEF VerifyPublic
<1>2. ok \in BOOLEAN OBVIOUS
<1>3. ASSUME cmd.kind = "create", ok PROVE CreateDelivers'
  <2>1. CreateReady /\ CreateFills /\ RecordsMatch /\ PublicMatches
    BY <1>1, <1>3 DEF Inv, CreateOK, CreateMatches
  <2>2. cmd.ip = info BY <1>1, <2>1 DEF CreateReady, Working, Checks
  <2>3. UNCHANGED <<droplet, info, known, volume, taken, dns, public, late>> BY <1>1 DEF world
  <2>4. \A s \in Sites : Resolve(s)' = info' /\ public'[s] = info'
    BY <1>1, <2>1, <2>2, <2>3, SameWorld DEF RecordsMatch, PublicMatches
  <2>5. ASSUME ~late'
        PROVE  \E d \in Ids : Ready(d)' /\ \A v \in Volumes : PathServed(v, d)'
    <3>1. PICK d \in Ids : Ready(d) BY <1>1, <2>1, <2>3, <2>5 DEF CreateReady, Checks
    <3>2. PICK e \in Ids : Exists(e) /\ \A v \in Volumes : Filled(v, e)
      BY <1>1, <2>1, <2>3, <2>5 DEF CreateFills, Checks
    <3>3. e = d BY <3>1, <3>2 DEF Inv, WorldOK, One, Ready, Listed
    <3>4. Ready(d)' BY <3>1, <2>3, ReadyStays
    <3>5. \A v \in Volumes : PathServed(v, d)' BY <3>2, <3>3, <2>3 DEF Filled, PathServed
    <3> QED BY <3>4, <3>5
  <2> QED BY <2>4, <2>5 DEF CreateDelivers, Ready
<1> HIDE DEF ok
<1> QED BY <1>1, <1>2, <1>3, EndKeeps

----------------------------------------------------------------------------
(* The world, and the steps of a command that only move it on.             *)

(* A droplet that is there stays and gets further; what is known of it     *)
(* does not change.                                                        *)
Grows ==
    /\ droplet' \in [Ids -> Droplets]
    /\ \A d \in Ids :
        /\ Exists(d)' = Exists(d)
        /\ Listed(d) => Listed(d)'
        /\ droplet[d].state = "active" => droplet'[d].state = "active" /\ droplet'[d].ip = droplet[d].ip

LEMMA GrowsKeeps ==
  ASSUME Inv, Grows, ActiveHasIp', sshd' \subseteq Ids, public' \in [Sites -> Address],
         \A s \in Sites : public'[s] \in {public[s], Resolve(s)},
         taken \subseteq taken', taken' \subseteq Ids \X Volumes,
         UNCHANGED <<info, known, volume, dns, cmd, outcome, late, commands>>
  PROVE  Inv'
<1>1. TypeOK' BY DEF Inv, TypeOK, Grows
<1>2. WorldOK' BY DEF Inv, WorldOK, One, VolumeOK, Grows
<1>3. \A d \in Ids : Ready(d) => Ready(d)'
  BY DEF Ready, Grows, HasEntry
<1>4. CommandOK'
  <2>1. \A d \in Ids : Up(d) => Up(d)' BY DEF Up, Grows
  <2> QED BY <2>1 DEF CommandOK, Inv, Grows
<1>5. CreateOK'
  <2>1. ASSUME CreateLists PROVE CreateLists' BY <2>1 DEF CreateLists, Grows
  <2>2. ASSUME CreateReady PROVE CreateReady' BY <2>2, <1>3 DEF CreateReady, Grows
  <2>3. ASSUME CreateFills, CommandOK PROVE CreateFills'
    <3>1. cmd.pc \in {"ensure", "attach", "mount"} => cmd.at \in Ids BY <2>3 DEF Inv, TypeOK, Commands, CommandOK
    <3> QED BY <2>3, <3>1 DEF CreateFills, Filled, PathServed, Grows
  <2>4. ASSUME CreateMatches PROVE CreateMatches' BY <2>4 DEF CreateMatches, RecordsMatch, Resolve
  <2> QED BY <2>1, <2>2, <2>3, <2>4 DEF CreateOK, Inv
<1>6. CreateDelivers'
  <2>1. SUFFICES ASSUME Delivered PROVE CreateDelivers' BY DEF CreateDelivers, Delivered
  <2>2. /\ \A s \in Sites : Resolve(s) = info /\ public[s] = info
        /\ ~late => \E d \in Ids : Ready(d) /\ \A v \in Volumes : PathServed(v, d)
    BY <2>1 DEF Inv, CreateDelivers, Ready
  <2>3. ~late' => \E d \in Ids : Ready(d)' /\ \A v \in Volumes : PathServed(v, d)'
    BY <1>3, <2>2 DEF PathServed
  <2>4. \A s \in Sites : Resolve(s)' = info' /\ public'[s] = info' BY <2>2 DEF Resolve
  <2> QED BY <2>3, <2>4 DEF CreateDelivers, Ready
<1> QED BY <1>1, <1>2, <1>4, <1>5, <1>6 DEF Inv

LEMMA AddressedKeeps == ASSUME Inv, NEW d \in Ids, Addressed(d) PROVE Inv'
<1>1. PICK i \in Free : droplet' = [droplet EXCEPT ![d].ip = i] BY DEF Addressed
<1>2. i \in Address /\ droplet[d].state = "new" BY <1>1 DEF Addressed, Free, Address
<1>3. Grows BY <1>1, <1>2 DEF Inv, TypeOK, Droplets, Grows, Exists, Listed
<1>4. ActiveHasIp' BY <1>1, <1>2 DEF Inv, TypeOK, WorldOK, ActiveHasIp
<1> QED BY <1>3, <1>4, GrowsKeeps DEF Addressed, Inv, TypeOK

LEMMA BootsKeeps == ASSUME Inv, NEW d \in Ids, Boots(d) PROVE Inv'
<1>1. droplet' = [droplet EXCEPT ![d].state = "active"] /\ droplet[d].state = "new" /\ droplet[d].ip # NoIp
  BY DEF Boots
<1>2. Grows BY <1>1 DEF Inv, TypeOK, Droplets, Grows, Exists, Listed
<1>3. ActiveHasIp' BY <1>1 DEF Inv, TypeOK, WorldOK, ActiveHasIp
<1> QED BY <1>2, <1>3, GrowsKeeps DEF Boots, Inv, TypeOK

LEMMA ListingCatchesUpKeeps == ASSUME Inv, NEW d \in Ids, ListingCatchesUp(d) PROVE Inv'
<1>1. droplet' = [droplet EXCEPT ![d].project = "listed"] BY DEF ListingCatchesUp
<1>2. Grows BY <1>1 DEF Inv, TypeOK, Droplets, Grows, Exists, Listed
<1>3. ActiveHasIp' BY <1>1 DEF Inv, TypeOK, WorldOK, ActiveHasIp
<1> QED BY <1>2, <1>3, GrowsKeeps DEF ListingCatchesUp, Inv, TypeOK

LEMMA SshAnswersKeeps == ASSUME Inv, NEW d \in Ids, SshAnswers(d) PROVE Inv'
<1>1. UNCHANGED droplet BY DEF SshAnswers
<1>2. Grows /\ ActiveHasIp' BY <1>1 DEF Inv, TypeOK, WorldOK, Grows, Exists, Listed, ActiveHasIp
<1> QED BY <1>2, GrowsKeeps DEF SshAnswers, Inv, TypeOK

LEMMA PropagatesKeeps == ASSUME Inv, NEW s \in Sites, Propagates(s) PROVE Inv'
<1>1. UNCHANGED droplet /\ public' = [public EXCEPT ![s] = Resolve(s)] BY DEF Propagates
<1>2. Grows /\ ActiveHasIp' BY <1>1 DEF Inv, TypeOK, WorldOK, Grows, Exists, Listed, ActiveHasIp
<1>3. Resolve(s) \in Address BY AnswerIsAddress DEF Inv, TypeOK, Resolve
<1>4. public' \in [Sites -> Address] /\ \A t \in Sites : public'[t] \in {public[t], Resolve(t)}
  BY <1>1, <1>3 DEF Inv, TypeOK
<1> QED BY <1>2, <1>4, GrowsKeeps DEF Propagates, Inv, TypeOK

LEMMA PathTakenKeeps == ASSUME Inv, NEW d \in Ids, NEW v \in Volumes, PathTaken(d, v) PROVE Inv'
<1>1. UNCHANGED droplet /\ taken' = taken \cup {<<d, v>>} BY DEF PathTaken
<1>2. Grows /\ ActiveHasIp' BY <1>1 DEF Inv, TypeOK, WorldOK, Grows, Exists, Listed, ActiveHasIp
<1>3. taken \subseteq taken' /\ taken' \subseteq Ids \X Volumes BY <1>1 DEF Inv, TypeOK
<1> QED BY <1>2, <1>3, GrowsKeeps DEF PathTaken, Inv, TypeOK

(* The only droplet there is goes: what is said of a droplet that exists   *)
(* is said of none.                                                        *)
LEMMA DestroyedKeeps == ASSUME Inv, NEW d \in Ids, Destroyed(d) PROVE Inv'
<1>1. /\ Exists(d) /\ outcome' = NoOutcome
      /\ droplet' = [droplet EXCEPT ![d].state = "gone"] /\ sshd' = sshd \ {d}
      /\ volume' = [v \in Volumes |-> [volume[v] EXCEPT !.on = IF @ = d THEN 0 ELSE @,
                                                       !.mounted = IF @ = d THEN 0 ELSE @,
                                                       !.fstab = IF @ = d THEN 0 ELSE @]]
      /\ taken' = {t \in taken : t[1] # d}
      /\ late' = (late \/ cmd.pc \in Checks)
      /\ UNCHANGED <<info, known, dns, public, cmd, commands>>
  BY DEF Destroyed
<1>2. droplet' \in [Ids -> Droplets] /\ sshd' \subseteq Ids /\ taken' \subseteq Ids \X Volumes /\ late' \in BOOLEAN
  BY <1>1 DEF Inv, TypeOK, Droplets
<1>3. ASSUME NEW v \in Volumes
      PROVE  /\ volume'[v] \in VolumeStates /\ volume'[v].formats = volume[v].formats
             /\ volume'[v].mounted # 0 => volume[v].mounted # 0
  <2>1. volume[v] \in VolumeStates BY DEF Inv, TypeOK
  <2>2. volume'[v] = [volume[v] EXCEPT !.on = IF volume[v].on = d THEN 0 ELSE volume[v].on,
                                       !.mounted = IF volume[v].mounted = d THEN 0 ELSE volume[v].mounted,
                                       !.fstab = IF volume[v].fstab = d THEN 0 ELSE volume[v].fstab]
    BY <1>1
  <2> QED BY <2>1, <2>2 DEF VolumeStates
<1>4. volume' \in [Volumes -> VolumeStates]
  <2>1. DOMAIN volume' = Volumes /\ volume' = [v \in Volumes |-> volume'[v]] BY <1>1
  <2> QED BY <1>3, <2>1
<1>5. NoOutcome \in [kind : Kinds, ok : BOOLEAN] BY DEF NoOutcome, Kinds
<1>6. TypeOK' BY <1>1, <1>2, <1>4, <1>5 DEF Inv, TypeOK
<1>7. \A e \in Ids : droplet'[e].ip = droplet[e].ip /\ droplet'[e].state \in {"gone", droplet[e].state}
  BY <1>1 DEF Inv, TypeOK, Droplets
<1>8. \A e \in Ids : ~Exists(e)'
  <2>1. droplet'[d].state = "gone" BY <1>1 DEF Inv, TypeOK, Droplets
  <2>2. Exists(d) /\ One BY <1>1 DEF Inv, WorldOK
  <2>3. \A e \in Ids : Exists(e) => e = d BY <2>2 DEF One
  <2> QED BY <2>1, <2>3, <1>7 DEF Exists
<1>9. WorldOK'
  <2>1. ActiveHasIp' BY <1>7 DEF Inv, WorldOK, ActiveHasIp
  <2>2. VolumeOK' BY <1>3 DEF Inv, WorldOK, VolumeOK
  <2> QED BY <1>8, <2>1, <2>2 DEF WorldOK, One
<1>10. CommandOK' BY <1>1, <1>8 DEF Inv, CommandOK, Provisioning, NoOutcome
<1>11. CreateOK'
  <2>1. CreateLists' BY <1>8 DEF CreateLists
  <2>2. ASSUME CreateReady PROVE CreateReady' BY <2>2, <1>1, <1>8 DEF CreateReady
  <2>3. ASSUME CreateFills, cmd.kind = "create" PROVE CreateFills'
    <3>1. cmd.pc \in {"ensure", "attach", "mount"} => cmd.at \in Ids BY DEF Inv, TypeOK, Commands, CommandOK
    <3>2. cmd.pc \in {"ensure", "attach", "mount"} => ~Exists(cmd.at)' BY <3>1, <1>1, <1>8
    <3> QED BY <2>3, <3>2, <1>1 DEF CreateFills
  <2>4. ASSUME CreateMatches PROVE CreateMatches' BY <2>4, <1>1 DEF CreateMatches, RecordsMatch, Resolve
  <2> QED BY <2>1, <2>2, <2>3, <2>4, <1>1 DEF CreateOK, Inv
<1>12. CreateDelivers' BY <1>1 DEF CreateDelivers, Delivered, NoOutcome
<1> QED BY <1>6, <1>9, <1>10, <1>11, <1>12 DEF Inv

LEMMA AssignDropletKeeps == ASSUME Inv, AssignDroplet PROVE Inv'
<1>1. /\ cmd.pc = "assign" /\ cmd.kind = "create" /\ Go("await")
      /\ UNCHANGED <<sshd, info, known, volume, taken, dns, public, late, commands>>
  BY DEF AssignDroplet, Inv, CommandOK, Provisioning
<1>2. PICK p \in {"out", "assigned", "listed"} : droplet' = [droplet EXCEPT ![cmd.at].project = p]
      /\ (droplet[cmd.at].project = "listed" => p = "listed")
  <2>1. cmd.at \in Ids BY <1>1 DEF Inv, TypeOK, Commands, CommandOK
  <2>2. droplet[cmd.at].project \in {"out", "assigned", "listed"} BY <2>1 DEF Inv, TypeOK, Droplets
  <2>3. droplet' = [droplet EXCEPT ![cmd.at].project = IF @ = "out" THEN "assigned" ELSE @]
    BY DEF AssignDroplet, Assigned
  <2> QED BY <2>2, <2>3
<1>3. cmd.at \in Ids BY <1>1 DEF Inv, TypeOK, Commands, CommandOK
<1>4. droplet' \in [Ids -> Droplets] BY <1>2, <1>3 DEF Inv, TypeOK, Droplets
<1>5. TypeOK' BY <1>1, <1>4, GoIs DEF Inv, TypeOK, Steps
<1>6. One' /\ ActiveHasIp' BY <1>2, <1>3 DEF Inv, TypeOK, WorldOK, One, ActiveHasIp, Exists
<1>7. WorldOK' BY <1>1, <1>6 DEF Inv, WorldOK, VolumeOK
<1>8. CommandOK' BY <1>1, GoIs DEF CommandOK, Provisioning, Steps, Inv
<1>9. CreateOK'
  BY <1>1, GoIs DEF CreateOK, CreateLists, CreateReady, CreateFills, CreateMatches, Working, VolumeSteps, Checks, Steps
<1>10. CreateDelivers' BY <1>1, GoIs DEF CreateDelivers, Delivered, Inv, CommandOK, Steps
<1> QED BY <1>5, <1>7, <1>8, <1>9, <1>10 DEF Inv

----------------------------------------------------------------------------
LEMMA InitHolds == ASSUME Init PROVE Inv
<1>1. cmd = Idle /\ outcome = NoOutcome /\ commands = 0 /\ late = FALSE /\ taken = {} /\ info = NoIp /\ known = {} /\ sshd = {}
  BY DEF Init
<1> DEFINE none == [d \in Ids |-> [state |-> "none", ip |-> NoIp, project |-> "out"]]
           first(i) == [d \in Ids |-> [state |-> IF d = Min(Ids) THEN "active" ELSE "none",
                                       ip |-> IF d = Min(Ids) THEN i ELSE NoIp, project |-> "out"]]
<1>2. droplet \in [Ids -> Droplets] /\ One /\ ActiveHasIp
  <2>1. CASE droplet = none BY <2>1 DEF Droplets, Address, One, ActiveHasIp, Exists
  <2>2. ASSUME NEW i \in Ips, droplet = first(i) PROVE droplet \in [Ids -> Droplets] /\ One /\ ActiveHasIp
    <3>1. \A d \in Ids : droplet[d] = [state |-> IF d = Min(Ids) THEN "active" ELSE "none",
                                       ip |-> IF d = Min(Ids) THEN i ELSE NoIp, project |-> "out"]
      BY <2>2
    <3>6. \A d \in Ids : \/ droplet[d] = [state |-> "active", ip |-> i, project |-> "out"] /\ d = Min(Ids)
                         \/ droplet[d] = [state |-> "none", ip |-> NoIp, project |-> "out"]
      BY <3>1
    <3>2. \A d \in Ids : droplet[d] \in Droplets BY <3>6 DEF Droplets, Address
    <3>3. droplet \in [Ids -> Droplets] BY <2>2, <3>2
    <3>4. \A d \in Ids : Exists(d) => d = Min(Ids) BY <3>6 DEF Exists
    <3>5. i # NoIp BY HostAssumption
    <3>7. ActiveHasIp BY <3>5, <3>6 DEF ActiveHasIp
    <3> QED BY <3>3, <3>4, <3>7 DEF One
  <2> QED BY <2>1, <2>2 DEF Init
<1>3. volume \in [Volumes -> VolumeStates] /\ VolumeOK BY DEF Init, VolumeStates, VolumeOK
<1>4. dns \in [Sites -> Records] /\ public \in [Sites -> Address] BY HostAssumption DEF Init, Address
<1>5. TypeOK
  <2>1. commands \in 0..MaxCommands BY <1>1, HostAssumption
  <2>2. NoOutcome \in [kind : Kinds, ok : BOOLEAN] BY DEF NoOutcome, Kinds
  <2> QED BY <2>1, <2>2, <1>1, <1>2, <1>3, <1>4, IdleIsCommand DEF TypeOK, Address
<1>6. CommandOK /\ CreateOK /\ CreateDelivers
  BY <1>1, HostAssumption DEF CommandOK, Provisioning, CreateOK, CreateDelivers, Delivered,
    NoOutcome, Idle
<1> QED BY <1>2, <1>3, <1>5, <1>6 DEF Inv, WorldOK

LEMMA StutterKeeps == ASSUME Inv, UNCHANGED vars PROVE Inv'
<1>1. Grows /\ ActiveHasIp' BY DEF vars, Inv, TypeOK, WorldOK, Grows, Exists, Listed, ActiveHasIp
<1> QED BY <1>1, GrowsKeeps DEF vars, Inv, TypeOK

LEMMA NextKeeps == ASSUME Inv, Next PROVE Inv'
<1>1. CASE CommandStep
  BY <1>1, LookInProjectKeeps, LookInAccountKeeps, CreateDropletKeeps, AssignDropletKeeps,
     AwaitListingKeeps, FindFailsKeeps, FindDropletKeeps, KnowHostKeeps, KnowTimesOutKeeps,
     FindAgainKeeps, VolumeTargetKeeps, EnsureVolumeKeeps, AttachVolumeKeeps, MountVolumeKeeps,
     MountFailsKeeps, SyncRecordKeeps, SyncFailsKeeps, SyncDoneKeeps, VerifyRecordsKeeps,
     VerifyPublicKeeps
  DEF CommandStep
<1>2. CASE Stops BY <1>2, StopsKeeps
<1>3. CASE World
  BY <1>3, AddressedKeeps, BootsKeeps, SshAnswersKeeps, ListingCatchesUpKeeps, DestroyedKeeps,
     PropagatesKeeps, PathTakenKeeps
  DEF World
<1>4. ASSUME NEW k \in Kinds, NEW r \in BOOLEAN, Begin(k, r) PROVE Inv' BY <1>4, BeginKeeps
<1> QED BY <1>1, <1>2, <1>3, <1>4 DEF Next

LEMMA InvAlways == Spec => []Inv
<1>1. ASSUME Inv, [Next]_vars PROVE Inv' BY <1>1, NextKeeps, StutterKeeps
<1> QED BY InitHolds, <1>1, PTL DEF Spec

----------------------------------------------------------------------------
(* Every variable keeps its type; a resolver's answer is an address        *)
(* whatever the records point at.                                          *)
THEOREM TypeCorrect == Spec => []TypeOK
<1>1. Inv => TypeOK BY DEF Inv
<1> QED BY <1>1, InvAlways, PTL

(* A second droplet of the name is never made, whatever fails, is killed   *)
(* or is destroyed at any time (create_droplet).                           *)
THEOREM OneDropletEver == Spec => []OneDroplet
<1>1. ASSUME Inv PROVE OneDroplet
  <2> DEFINE there == {d \in Ids : Exists(d)}
  <2>1. CASE there = {}
    <3>1. Cardinality(there) = 0 BY <2>1, FS_EmptySet
    <3> QED BY <3>1 DEF OneDroplet
  <2>2. ASSUME NEW d \in there PROVE OneDroplet
    <3>1. there = {d} BY <1>1 DEF Inv, WorldOK, One
    <3>2. Cardinality(there) = 1 BY <3>1, FS_Singleton
    <3> QED BY <3>2 DEF OneDroplet
  <2> QED BY <2>1, <2>2
<1> QED BY <1>1, InvAlways, PTL

(* A host create that reports success has noted no failure on its way, a   *)
(* droplet destroyed before its last volume is mounted makes it fail, and  *)
(* the records it checked still point at docker_host when it ends          *)
(* (cmd_env_host_create, _finish_host_provisioning).                       *)
THEOREM CreateDeliversAlways == Spec => []CreateDelivers
<1>1. Inv => CreateDelivers BY DEF Inv
<1> QED BY <1>1, InvAlways, PTL

----------------------------------------------------------------------------
(* BackupKeys.  The inductive invariant, in parts: the types; how many     *)
(* bootstrap keys there are; that the password of a repository is in the   *)
(* file or about to be written; what of a plan is in the file; that the    *)
(* file and what is to be written are whole; and what a command has done   *)
(* on its way to a key.                                                    *)

Bootstrapping == {"bucket", "assign", "cleanup"}
Filling == {"cli", "confirm", "write"}
TaskRecords ==
    [kind : TaskKinds, force : BOOLEAN, print : BOOLEAN, pc : TaskSteps, failed : BOOLEAN,
     at : AKey, todo : SUBSET Fields,
     order : {<<>>, PgbrFields, ResticFields, GarageFields}, new : Files]
KeyRecords == [at : Places \cup {"gone"}, grant : BOOLEAN, minted : BOOLEAN]
Results == [kind : TaskKinds, ok : BOOLEAN, print : BOOLEAN]

StoresType ==
    /\ key \in [Keys -> KeyRecords]
    /\ bucket \subseteq Stores /\ role \in BOOLEAN
    /\ repo \in [Stores -> Passwords]
    /\ cli \in AKey
KeysType ==
    /\ creds \in Files /\ read \in BOOLEAN /\ torn \in BOOLEAN
    /\ StoresType
    /\ boots \in Nat /\ left \in Nat /\ unheard \in Nat
    /\ task \in TaskRecords /\ result \in Results
    /\ tasks \in 0..MaxTasks

BootsOK ==
    /\ boots = IF task.pc \in Bootstrapping THEN left + unheard + 1 ELSE left + unheard
    /\ left + unheard <= tasks
    /\ task.pc \in {"load", "boot"} \cup Bootstrapping => left + unheard < tasks
    /\ task.pc # "idle" => tasks > 0 /\ ~result.ok

Unmade == \A s \in Stores : repo[s] = 0
RepoOK ==
    /\ creds.repo = "none" \/ creds.pw = 0 => Unmade
    /\ \A s \in Stores : repo[s] # 0 => creds.pw = repo[s]
    /\ task.kind = "restic" /\ task.pc \notin {"idle", "load"} => Unmade
    /\ task.pc \in Filling =>
        /\ Unmade \/ task.new.pw = creds.pw
        /\ task.new.repo = "none" => creds.repo = "none"
        /\ task.new.pw = 0 => creds.pw = 0

PgbrEmpty(f) == f.place = "none" /\ ~f.path /\ f.key = 0 /\ f.secret = 0
ResticEmpty(f) == f.repo = "none" /\ f.pw = 0 /\ f.rkey = 0 /\ f.rsecret = 0
PgbrGood(f) == f.path /\ Works(f.place, f.key, f.secret)
ResticGood(f) == f.pw # 0 /\ Works(f.repo, f.rkey, f.rsecret)
Whole(f) ==
    /\ PgbrEmpty(f) \/ PgbrGood(f)
    /\ ResticEmpty(f) \/ ResticGood(f)
    /\ f.place = "garage" => ~ResticEmpty(f)

InPlan ==
    \/ task.order # <<>> /\ task.todo \subseteq Range(task.order)
    \/ task.order = <<>> /\ \/ task.todo \subseteq Range(PgbrFields)
                            \/ task.todo \subseteq Range(ResticFields)
PlanOK ==
    task.pc \in Filling =>
        /\ InPlan
        /\ \A f \in Fields \ task.todo : creds[f] = task.new[f]
        /\ task.order = GarageFields => task.kind = "garage"
        /\ task.pc # "write" => Untouched /\ task.kind = "garage"
        /\ task.print => task.pc = "cli"
FileOK == ~torn /\ (task.pc # "write" \/ Untouched) => Whole(creds)
NewOK ==
    task.pc \in Filling /\ (~torn \/ task.order = GarageFields) =>
        /\ Whole(task.new)
        /\ task.kind \in {"pgbackrest", "garage"} => PgbrGood(task.new)
        /\ task.kind \in {"restic", "garage"} => ResticGood(task.new)
WayOK ==
    /\ task.print => task.kind = "garage"
    /\ task.pc = "load" => task.order = <<>>
    /\ task.pc \in {"boot", "spaceskey"} \cup Bootstrapping =>
        task.kind # "garage" /\ (task.kind = "restic" => ~PgbrOk /\ ~ResticConflict)
    /\ task.pc \in {"assign", "spaceskey"} \/ (task.pc = "cleanup" /\ ~task.failed) => "spaces" \in bucket
    /\ task.pc \in {"layout", "gbucket", "gkey", "allow"} => task.kind = "garage"
    /\ task.pc \in {"gkey", "allow"} => "garage" \in bucket
    /\ task.pc = "allow" => task.at \in Keys /\ key[task.at].at = "garage"

KeysInv ==
    KeysType /\ BootsOK /\ RepoOK /\ PlanOK /\ FileOK /\ NewOK /\ WayOK /\ SuccessIsUsable

----------------------------------------------------------------------------
(* The fields, and what a step that leaves the file alone keeps.           *)

LEMMA FieldSets ==
    /\ Range(PgbrFields) = {"place", "path", "key", "secret"}
    /\ Range(ResticFields) = {"repo", "pw", "rkey", "rsecret"}
    /\ Fields = {"place", "path", "key", "secret", "repo", "pw", "rkey", "rsecret"}
    /\ Range(GarageFields) = Fields
    /\ PgbrFields # <<>> /\ ResticFields # <<>> /\ GarageFields # <<>>
    /\ GarageFields # PgbrFields /\ GarageFields # ResticFields
<1>1. Range(PgbrFields) = {"place", "path", "key", "secret"} BY DEF Range, PgbrFields
<1>2. Range(ResticFields) = {"repo", "pw", "rkey", "rsecret"} BY DEF Range, ResticFields
<1> DEFINE S == {"place", "path", "key", "secret", "repo", "pw", "rkey", "rsecret"}
<1> DEFINE q == <<"place", "key", "secret", "path">>
<1>3. PgbrFields \in Seq(S) /\ Len(PgbrFields) = 4 BY DEF PgbrFields
<1>4. ResticFields \in Seq(S) /\ Len(ResticFields) = 4 BY DEF ResticFields
<1>5. q \in Seq(S) /\ Len(q) = 4 OBVIOUS
<1>6. Range(q) = Range(PgbrFields) BY <1>1 DEF Range
<1>7. GarageFields = q \o ResticFields BY DEF GarageFields
<1> HIDE DEF q, S
<1>8. Range(PgbrFields \o ResticFields) = Range(PgbrFields) \cup Range(ResticFields)
  BY <1>3, <1>4, RangeConcatenation
<1>9. Range(GarageFields) = Range(q) \cup Range(ResticFields) BY <1>4, <1>5, <1>7, RangeConcatenation
<1>10. Len(q \o ResticFields) = Len(q) + Len(ResticFields) BY <1>4, <1>5, ConcatProperties
<1>11. Len(<<>>) = 0 OBVIOUS
<1>12. /\ GarageFields # PgbrFields /\ GarageFields # ResticFields
       /\ PgbrFields # <<>> /\ ResticFields # <<>> /\ GarageFields # <<>>
  <2>1. Len(GarageFields) = 8 BY <1>4, <1>5, <1>7, <1>10
  <2>2. 4 # 8 /\ 4 # 0 /\ 8 # 0 OBVIOUS
  <2> QED BY <2>1, <2>2, <1>3, <1>4, <1>11, Zenon
<1> QED BY <1>1, <1>2, <1>6, <1>8, <1>9, <1>12 DEF Fields

Steady ==
    /\ UNCHANGED <<creds, read, repo, tasks>>
    /\ StoresType' /\ bucket \subseteq bucket'
    /\ \A k \in Keys : key[k].at \in Stores =>
        key'[k].at = key[k].at /\ (key[k].grant => key'[k].grant)

LEMMA WholeStays ==
  ASSUME Steady
  PROVE  /\ Whole(creds) => Whole(creds)'
         /\ PgbrWorks => PgbrWorks'
         /\ ResticWorks => ResticWorks'
         /\ UNCHANGED task => /\ Whole(task.new) => Whole(task.new)'
                              /\ PgbrGood(task.new) => PgbrGood(task.new)'
                              /\ ResticGood(task.new) => ResticGood(task.new)'
BY DEF Steady, Whole, PgbrEmpty, ResticEmpty, PgbrGood, ResticGood, PgbrWorks, ResticWorks, Works

LEMMA NoTaskIsTask == NoTask \in TaskRecords
<1>1. 0 \in Passwords BY KeysAssumption DEF Passwords
<1>2. 0 \in AKey /\ "none" \in Places BY DEF AKey, Places
<1>3. Empty \in Files BY <1>1, <1>2 DEF Empty, Files
<1> QED BY <1>2, <1>3 DEF NoTask, TaskRecords, TaskKinds, TaskSteps

LEMMA SumIsNat == \A m, n \in Nat : m + n \in Nat
OBVIOUS

LEMMA KeysEnd ==
  ASSUME KeysInv, Steady, NEW ok \in BOOLEAN, EndTask(ok), torn' \in BOOLEAN,
         ~torn' => ~torn /\ (task.pc # "write" \/ Untouched),
         left' \in Nat, unheard' \in Nat, boots' = left' + unheard', left' + unheard' <= tasks,
         ok /\ ~task.print /\ ~torn' =>
            /\ task.kind \in {"pgbackrest", "garage"} => PgbrWorks
            /\ task.kind \in {"restic", "garage"} => ResticWorks
  PROVE  KeysInv'
<1>1. task' = NoTask /\ result' = [kind |-> task.kind, ok |-> ok, print |-> task.print] BY DEF EndTask
<1>2. task'.pc = "idle" /\ task'.kind = "garage" /\ task' \in TaskRecords BY <1>1, NoTaskIsTask DEF NoTask
<1>3. result' \in Results BY <1>1 DEF KeysInv, KeysType, TaskRecords, Results
<1>10. boots' \in Nat BY SumIsNat
<1>4. KeysType' BY <1>2, <1>3, <1>10 DEF KeysInv, KeysType, Steady
<1>5. BootsOK' BY <1>2 DEF BootsOK, Bootstrapping, Steady
<1>6. RepoOK' BY <1>2 DEF KeysInv, RepoOK, Unmade, Filling, Steady
<1>7. PlanOK' /\ NewOK' /\ WayOK' BY <1>2 DEF PlanOK, NewOK, WayOK, Filling, Bootstrapping
<1>8. FileOK' BY WholeStays DEF KeysInv, FileOK
<1>9. SuccessIsUsable' BY <1>1, WholeStays DEF SuccessIsUsable, Promised
<1> QED BY <1>4, <1>5, <1>6, <1>7, <1>8, <1>9 DEF KeysInv

(* A step on the way to a key, before there is anything to write.          *)
LEMMA KeysGo ==
  ASSUME KeysInv, Steady, UNCHANGED <<torn, result>>,
         task.pc \notin Filling \cup {"idle"}, task' \in TaskRecords,
         task'.pc \notin Filling \cup {"idle"}, task'.kind = task.kind,
         boots' \in Nat, left' \in Nat, unheard' \in Nat, BootsOK', WayOK',
         task.kind = "restic" => Unmade
  PROVE  KeysInv'
<1>1. KeysType' BY DEF KeysInv, KeysType, Steady
<1>2. RepoOK' BY DEF KeysInv, RepoOK, Unmade, Steady
<1>3. PlanOK' /\ NewOK' BY DEF PlanOK, NewOK
<1>4. FileOK' BY WholeStays DEF KeysInv, FileOK, Filling
<1>5. SuccessIsUsable' BY DEF SuccessIsUsable, Promised, KeysInv, BootsOK
<1> QED BY <1>1, <1>2, <1>3, <1>4, <1>5 DEF KeysInv

LEMMA StoresStay ==
  ASSUME KeysInv, UNCHANGED <<creds, read, key, repo, tasks>>,
         bucket' = bucket \/ \E s \in Stores : bucket' = bucket \cup {s}, role' \in BOOLEAN, cli' \in AKey
  PROVE  Steady
BY DEF KeysInv, KeysType, StoresType, Steady

LEMMA HalvesWork ==
  ASSUME KeysInv, ~torn, task.pc # "write"
  PROVE  /\ SomePgbr => PgbrWorks /\ PgbrGood(creds)
         /\ SomeRestic => ResticWorks /\ ResticGood(creds)
BY DEF KeysInv, FileOK, Whole, PgbrEmpty, ResticEmpty, PgbrGood, ResticGood, SomePgbr, SomeRestic,
       PgbrWorks, ResticWorks

----------------------------------------------------------------------------
(* Steps that end a command.                                               *)

LEMMA BeginTaskKeeps ==
  ASSUME KeysInv, NEW kind \in TaskKinds, NEW force \in BOOLEAN, NEW print \in BOOLEAN,
         BeginTask(kind, force, print)
  PROVE  KeysInv'
<1>1. /\ task.pc = "idle" /\ tasks < MaxTasks /\ tasks' = tasks + 1
      /\ task' = [NoTask EXCEPT !.kind = kind, !.force = force, !.print = print, !.pc = "load"]
      /\ result' = NoResult /\ UNCHANGED <<stores, file>>
  BY DEF BeginTask
<1>2. task' \in TaskRecords /\ task'.pc = "load" BY <1>1, NoTaskIsTask DEF TaskRecords, TaskSteps
<1>3. tasks \in Nat /\ MaxTasks \in Nat BY KeysAssumption DEF KeysInv, KeysType
<1>4. result' \in Results /\ ~result'.ok BY <1>1 DEF NoResult, Results, TaskKinds
<1>5. KeysType' BY <1>1, <1>2, <1>3, <1>4 DEF KeysInv, KeysType, StoresType, stores, file
<1>6. BootsOK'
  <2>1. boots = left + unheard /\ left + unheard <= tasks /\ left \in Nat /\ unheard \in Nat BY <1>1 DEF KeysInv, KeysType, BootsOK, Bootstrapping
  <2>2. boots' = left' + unheard' /\ left' + unheard' < tasks' /\ tasks' > 0 BY <2>1, <1>1, <1>3 DEF stores
  <2> QED BY <2>2, <1>2, <1>4, <1>3, <1>1, <2>1 DEF BootsOK, Bootstrapping, stores
<1>7. RepoOK' BY <1>1, <1>2 DEF KeysInv, RepoOK, Unmade, Filling, stores, file
<1>8. PlanOK' /\ NewOK' /\ WayOK'
  <2>1. (task'.print => task'.kind = "garage") /\ task'.order = <<>> BY <1>1 DEF BeginTask, NoTask
  <2> QED BY <2>1, <1>2 DEF PlanOK, NewOK, WayOK, Filling, Bootstrapping
<1>9. FileOK'
  <2>1. ~torn => Whole(creds) BY <1>1 DEF KeysInv, FileOK
  <2> QED BY <2>1, <1>1 DEF FileOK, Whole, PgbrEmpty, ResticEmpty, PgbrGood, ResticGood, Works, stores, file
<1>10. SuccessIsUsable' BY <1>4 DEF SuccessIsUsable, Promised
<1> QED BY <1>5, <1>6, <1>7, <1>8, <1>9, <1>10 DEF KeysInv

LEMMA TaskStopsKeeps == ASSUME KeysInv, TaskStops PROVE KeysInv'
<1>1. /\ task.pc \notin {"idle", "bucket", "assign", "cleanup"} /\ EndTask(FALSE)
      /\ torn' = (torn \/ (task.pc = "write" /\ ~Untouched))
      /\ UNCHANGED <<creds, read, stores, tasks>>
  BY DEF TaskStops
<1>2. torn \in BOOLEAN /\ cli \in AKey /\ role \in BOOLEAN BY DEF KeysInv, KeysType, StoresType
<1>3. torn' \in BOOLEAN /\ (~torn' => ~torn /\ (task.pc # "write" \/ Untouched)) BY <1>1, <1>2
<1>4. Steady BY <1>1, <1>2, StoresStay DEF stores
<1>5. left' \in Nat /\ unheard' \in Nat /\ boots' = left' + unheard' /\ left' + unheard' <= tasks
  BY <1>1 DEF KeysInv, KeysType, BootsOK, Bootstrapping, stores
<1> QED BY <1>1, <1>3, <1>4, <1>5, KeysEnd

LEMMA KilledKeeps == ASSUME KeysInv, Killed PROVE KeysInv'
<1>1. /\ task.pc \in Bootstrapping /\ EndTask(FALSE) /\ left' = left + 1
      /\ UNCHANGED <<key, bucket, role, boots, unheard, repo, cli, file, tasks>>
  BY DEF Killed, Bootstrapping
<1>2. cli \in AKey /\ role \in BOOLEAN /\ torn \in BOOLEAN BY DEF KeysInv, KeysType, StoresType
<1>3. Steady BY <1>1, <1>2, StoresStay DEF file
<1>4. left' \in Nat /\ unheard' \in Nat /\ boots' = left' + unheard' /\ left' + unheard' <= tasks
  BY <1>1 DEF KeysInv, KeysType, BootsOK, Bootstrapping
<1>5. torn' = torn /\ task.pc # "write" BY <1>1 DEF file, Bootstrapping
<1> QED BY <1>1, <1>2, <1>3, <1>4, <1>5, KeysEnd

(* A command that ends before it writes, with the stores as they were.     *)
LEMMA KeysEndEarly ==
  ASSUME KeysInv, NEW ok \in BOOLEAN, EndTask(ok), task.pc \notin {"write"} \cup Bootstrapping,
         Steady, UNCHANGED <<torn, boots, left, unheard>>,
         ok /\ ~task.print /\ ~torn =>
            /\ task.kind \in {"pgbackrest", "garage"} => PgbrWorks
            /\ task.kind \in {"restic", "garage"} => ResticWorks
  PROVE  KeysInv'
<1>1. left' \in Nat /\ unheard' \in Nat /\ boots' = left' + unheard' /\ left' + unheard' <= tasks
  BY DEF KeysInv, KeysType, BootsOK
<1>2. torn' \in BOOLEAN BY DEF KeysInv, KeysType
<1> QED BY <1>1, <1>2, KeysEnd

LEMMA SpacesSkippedKeeps == ASSUME KeysInv, SpacesSkipped PROVE KeysInv'
<1>1. /\ task.pc = "load" /\ task.kind # "garage" /\ EndTask(TRUE)
      /\ IF task.kind = "pgbackrest" THEN PgbrOk ELSE ResticOk
      /\ UNCHANGED <<stores, file, tasks>>
  BY DEF SpacesSkipped
<1>2. cli \in AKey /\ role \in BOOLEAN BY DEF KeysInv, KeysType, StoresType
<1>3. Steady BY <1>1, <1>2, StoresStay DEF stores, file
<1>4. UNCHANGED <<torn, boots, left, unheard>> BY <1>1 DEF stores, file
<1>5. task.kind \in TaskKinds BY DEF KeysInv, KeysType, TaskRecords
<1>6. ~torn => /\ task.kind \in {"pgbackrest", "garage"} => PgbrWorks
               /\ task.kind \in {"restic", "garage"} => ResticWorks
  BY <1>1, <1>5, HalvesWork DEF TaskKinds, PgbrOk, ResticOk, SomePgbr, SomeRestic
<1>7. task.pc \notin {"write"} \cup Bootstrapping BY <1>1 DEF Bootstrapping
<1> QED BY <1>1, <1>3, <1>4, <1>6, <1>7, KeysEndEarly

LEMMA RefusedKeeps == ASSUME KeysInv, SpacesRefused \/ GarageRefused PROVE KeysInv'
<1>1. task.pc = "load" /\ EndTask(FALSE) /\ UNCHANGED <<stores, file, tasks>>
  BY DEF SpacesRefused, GarageRefused
<1>2. cli \in AKey /\ role \in BOOLEAN BY DEF KeysInv, KeysType, StoresType
<1>3. Steady BY <1>1, <1>2, StoresStay DEF stores, file
<1>4. UNCHANGED <<torn, boots, left, unheard>> BY <1>1 DEF stores, file
<1>5. task.pc \notin {"write"} \cup Bootstrapping BY <1>1 DEF Bootstrapping
<1> QED BY <1>1, <1>3, <1>4, <1>5, KeysEndEarly

LEMMA GarageSkippedKeeps == ASSUME KeysInv, GarageSkipped PROVE KeysInv'
<1>1. /\ task.pc = "load" /\ PgbrOk /\ ResticOk /\ cli' \in CliMayHave(creds.key) /\ EndTask(TRUE)
      /\ UNCHANGED <<key, bucket, role, boots, left, unheard, repo, file, tasks>>
  BY DEF GarageSkipped
<1>2. cli \in AKey /\ role \in BOOLEAN /\ creds.key \in AKey BY DEF KeysInv, KeysType, StoresType, Files
<1>3. cli' \in AKey /\ role' \in BOOLEAN BY <1>1, <1>2 DEF CliMayHave
<1>4. Steady BY <1>1, <1>3, StoresStay DEF file
<1>5. UNCHANGED <<torn, boots, left, unheard>> BY <1>1 DEF file
<1>6. ~torn => PgbrWorks /\ ResticWorks
  BY <1>1, HalvesWork DEF PgbrOk, ResticOk, SomePgbr, SomeRestic
<1>7. task.pc \notin {"write"} \cup Bootstrapping BY <1>1 DEF Bootstrapping
<1> QED BY <1>1, <1>4, <1>5, <1>6, <1>7, KeysEndEarly

----------------------------------------------------------------------------
(* Steps on the way to a key at Spaces, and to one at Garage.              *)

LEMMA GoToIs ==
  ASSUME KeysInv, NEW pc \in TaskSteps, GoTo(pc)
  PROVE  /\ task' \in TaskRecords /\ task'.pc = pc /\ UNCHANGED result
         /\ task'.kind = task.kind /\ task'.at = task.at /\ task'.failed = task.failed
         /\ task'.force = task.force /\ task'.print = task.print
         /\ task'.todo = task.todo /\ task'.order = task.order /\ task'.new = task.new
BY DEF GoTo, KeysInv, KeysType, TaskRecords

LEMMA SpacesWayKnows ==
  ASSUME KeysInv, task.pc \in {"boot", "spaceskey"} \cup Bootstrapping
  PROVE  /\ task.kind \in {"pgbackrest", "restic"} /\ ~task.print
         /\ task.kind = "restic" => ~PgbrOk /\ ~ResticConflict /\ Unmade
BY DEF KeysInv, KeysType, TaskRecords, TaskKinds, WayOK, RepoOK, Bootstrapping

LEMMA FilesAsRead ==
  ASSUME UNCHANGED <<creds, read>>
  PROVE  PgbrOk' = PgbrOk /\ ResticConflict' = ResticConflict /\ ResticOk' = ResticOk
BY DEF PgbrOk, ResticConflict, ResticOk, SomeRestic

LEMMA BootstrapKeeps == ASSUME KeysInv, Bootstrap PROVE KeysInv'
<1>1. /\ task.pc = "boot" /\ boots' = boots + 1
      /\ \/ GoTo("bucket") /\ UNCHANGED unheard
         \/ EndTask(FALSE) /\ unheard' = unheard + 1
      /\ UNCHANGED <<key, bucket, role, left, repo, cli, file, tasks>>
  BY DEF Bootstrap
<1>2. cli \in AKey /\ role \in BOOLEAN /\ torn \in BOOLEAN BY DEF KeysInv, KeysType, StoresType
<1>3. Steady BY <1>1, <1>2, StoresStay DEF file
<1>4. /\ boots = left + unheard /\ left \in Nat /\ unheard \in Nat /\ left + unheard < tasks
      /\ tasks > 0 /\ ~result.ok /\ tasks \in Nat
  BY <1>1, KeysAssumption DEF KeysInv, KeysType, BootsOK, Bootstrapping
<1>5. torn' = torn BY <1>1 DEF file
<1>6. CASE GoTo("bucket") /\ UNCHANGED unheard
  <2>1. "bucket" \in TaskSteps BY DEF TaskSteps
  <2>2. /\ task' \in TaskRecords /\ task'.pc = "bucket" /\ task'.kind = task.kind
        /\ task'.print = task.print /\ UNCHANGED result
    BY <1>6, <2>1, GoToIs
  <2>3. BootsOK' BY <1>1, <1>4, <1>6, <2>2 DEF BootsOK, Bootstrapping
  <2>4. WayOK' BY <1>1, <2>2, SpacesWayKnows, FilesAsRead DEF WayOK, file
  <2>5. boots' \in Nat /\ left' \in Nat /\ unheard' \in Nat BY <1>1, <1>4, <1>6
  <2>6. task.kind = "restic" => Unmade BY <1>1, SpacesWayKnows
  <2> QED BY <1>1, <1>3, <1>5, <2>2, <2>3, <2>4, <2>5, <2>6, KeysGo DEF Filling
<1>7. CASE EndTask(FALSE) /\ unheard' = unheard + 1
  <2>1. left' \in Nat /\ unheard' \in Nat /\ boots' = left' + unheard' /\ left' + unheard' <= tasks
    BY <1>1, <1>4, <1>7
  <2> QED BY <1>1, <1>2, <1>3, <1>5, <1>7, <2>1, KeysEnd
<1> QED BY <1>1, <1>6, <1>7

(* A step while there is a bootstrap key, which it leaves there.           *)
LEMMA KeysGoOn ==
  ASSUME KeysInv, Steady, UNCHANGED <<torn, result, boots, left, unheard>>, task.pc \in Bootstrapping,
         task' \in TaskRecords, task'.pc \in Bootstrapping, task'.kind = task.kind, WayOK'
  PROVE  KeysInv'
<1>1. BootsOK' BY DEF KeysInv, BootsOK, Bootstrapping, Steady
<1>2. boots' \in Nat /\ left' \in Nat /\ unheard' \in Nat BY DEF KeysInv, KeysType
<1>3. task.kind = "restic" => Unmade BY SpacesWayKnows
<1> QED BY <1>1, <1>2, <1>3, KeysGo DEF Filling, Bootstrapping

LEMMA EnsureBucketKeeps == ASSUME KeysInv, EnsureBucket PROVE KeysInv'
<1>1. /\ task.pc = "bucket"
      /\ UNCHANGED <<result, key, role, boots, left, unheard, repo, cli, file, tasks>>
  BY DEF EnsureBucket
<1>2. cli \in AKey /\ role \in BOOLEAN /\ task \in TaskRecords BY DEF KeysInv, KeysType, StoresType
<1>3. CASE bucket' = bucket \cup {"spaces"} /\ task' = [task EXCEPT !.pc = "assign"]
  <2>1. Steady BY <1>1, <1>2, <1>3, StoresStay DEF file, Stores
  <2>2. task' \in TaskRecords /\ task'.pc = "assign" /\ task'.kind = task.kind
    BY <1>2, <1>3 DEF TaskRecords, TaskSteps
  <2>3. WayOK' BY <1>1, <1>3, <2>2, SpacesWayKnows, FilesAsRead DEF WayOK, Bootstrapping, file
  <2> QED BY <1>1, <2>1, <2>2, <2>3, KeysGoOn DEF Bootstrapping, file
<1>4. CASE UNCHANGED bucket /\ task' = [task EXCEPT !.pc = "cleanup", !.failed = TRUE]
  <2>1. Steady BY <1>1, <1>2, <1>4, StoresStay DEF file
  <2>2. task' \in TaskRecords /\ task'.pc = "cleanup" /\ task'.kind = task.kind /\ task'.failed
    BY <1>2, <1>4 DEF TaskRecords, TaskSteps
  <2>3. WayOK' BY <1>1, <1>4, <2>2, SpacesWayKnows, FilesAsRead DEF WayOK, Bootstrapping, file
  <2> QED BY <1>1, <2>1, <2>2, <2>3, KeysGoOn DEF Bootstrapping, file
<1> QED BY <1>3, <1>4 DEF EnsureBucket

LEMMA AssignBucketKeeps == ASSUME KeysInv, AssignBucket PROVE KeysInv'
<1>1. task.pc = "assign" /\ UNCHANGED <<result, stores, file, tasks>> BY DEF AssignBucket
<1>2. PICK failed \in BOOLEAN : task' = [task EXCEPT !.pc = "cleanup", !.failed = failed] BY DEF AssignBucket
<1>3. cli \in AKey /\ role \in BOOLEAN /\ task \in TaskRecords BY DEF KeysInv, KeysType, StoresType
<1>4. Steady BY <1>1, <1>3, StoresStay DEF stores, file
<1>5. task' \in TaskRecords /\ task'.pc = "cleanup" /\ task'.kind = task.kind /\ task'.print = task.print
  BY <1>2, <1>3 DEF TaskRecords, TaskSteps
<1>6. "spaces" \in bucket BY <1>1 DEF KeysInv, WayOK
<1>7. WayOK' BY <1>1, <1>5, <1>6, SpacesWayKnows, FilesAsRead DEF WayOK, Bootstrapping, stores, file
<1> QED BY <1>1, <1>4, <1>5, <1>7, KeysGoOn DEF Bootstrapping, stores, file

LEMMA DeleteBootstrapKeeps == ASSUME KeysInv, DeleteBootstrap PROVE KeysInv'
<1>1. /\ task.pc = "cleanup" /\ UNCHANGED <<key, bucket, role, unheard, repo, cli, file, tasks>>
      /\ (boots' = boots - 1 /\ UNCHANGED left) \/ (left' = left + 1 /\ UNCHANGED boots)
      /\ UNCHANGED unheard
      /\ IF task.failed THEN EndTask(FALSE) ELSE GoTo("spaceskey")
  BY DEF DeleteBootstrap
<1>2. boots = left + unheard + 1 /\ left \in Nat /\ unheard \in Nat /\ left + unheard < tasks /\ tasks > 0 /\ ~result.ok /\ boots \in Nat /\ tasks \in Nat
  BY <1>1, KeysAssumption DEF KeysInv, KeysType, BootsOK, Bootstrapping
<1>3. left' \in Nat /\ unheard' \in Nat /\ boots' = left' + unheard' /\ left' + unheard' <= tasks BY <1>1, <1>2
<1>4. cli \in AKey /\ role \in BOOLEAN /\ torn \in BOOLEAN BY DEF KeysInv, KeysType, StoresType
<1>5. Steady BY <1>1, <1>4, StoresStay DEF file
<1>6. torn' = torn /\ task.pc # "write" BY <1>1 DEF file
<1>7. CASE task.failed /\ EndTask(FALSE) BY <1>1, <1>3, <1>4, <1>5, <1>6, <1>7, KeysEnd
<1>8. CASE ~task.failed /\ GoTo("spaceskey")
  <2>1. "spaceskey" \in TaskSteps BY DEF TaskSteps
  <2>2. /\ task' \in TaskRecords /\ task'.pc = "spaceskey" /\ task'.kind = task.kind
        /\ task'.print = task.print /\ UNCHANGED result
    BY <1>8, <2>1, GoToIs
  <2>3. "spaces" \in bucket BY <1>1, <1>8 DEF KeysInv, WayOK
  <2>4. WayOK' BY <1>1, <2>2, <2>3, SpacesWayKnows, FilesAsRead DEF WayOK, Bootstrapping, file
  <2>5. BootsOK' BY <1>1, <1>2, <1>3, <2>2 DEF BootsOK, Bootstrapping
  <2>6. task.kind = "restic" => Unmade BY <1>1, SpacesWayKnows DEF Bootstrapping
  <2>7. boots' \in Nat BY <1>3, SumIsNat
  <2> QED BY <1>1, <1>3, <1>5, <1>6, <2>2, <2>4, <2>5, <2>6, <2>7, KeysGo DEF Filling
<1> QED BY <1>1, <1>7, <1>8

(* A step of the provisioning of Garage before it has a key.               *)
LEMMA KeysGoGarage ==
  ASSUME KeysInv, Steady, UNCHANGED <<torn, result, boots, left, unheard>>,
         task.kind = "garage", task.pc \in {"load", "layout", "gbucket", "gkey"},
         task' \in TaskRecords, task'.pc \in {"layout", "gbucket", "gkey", "allow"}, task'.kind = task.kind,
         task'.pc \in {"gkey", "allow"} => "garage" \in bucket',
         task'.pc = "allow" => task'.at \in Keys /\ key'[task'.at].at = "garage"
  PROVE  KeysInv'
<1>1. BootsOK' BY DEF KeysInv, BootsOK, Bootstrapping, Steady
<1>2. boots' \in Nat /\ left' \in Nat /\ unheard' \in Nat BY DEF KeysInv, KeysType
<1>3. WayOK' BY DEF WayOK, Bootstrapping
<1> QED BY <1>1, <1>2, <1>3, KeysGo DEF Filling

LEMMA NeedGarageKeeps == ASSUME KeysInv, NeedGarage PROVE KeysInv'
<1>1. task.pc = "load" /\ task.kind = "garage" /\ GoTo("layout") /\ UNCHANGED <<stores, file, tasks>>
  BY DEF NeedGarage
<1>2. "layout" \in TaskSteps BY DEF TaskSteps
<1>3. task' \in TaskRecords /\ task'.pc = "layout" /\ task'.kind = task.kind /\ UNCHANGED result
  BY <1>1, <1>2, GoToIs
<1>4. cli \in AKey /\ role \in BOOLEAN BY DEF KeysInv, KeysType, StoresType
<1>5. Steady BY <1>1, <1>4, StoresStay DEF stores, file
<1> QED BY <1>1, <1>3, <1>5, KeysGoGarage DEF stores, file

LEMMA EnsureLayoutKeeps == ASSUME KeysInv, EnsureLayout PROVE KeysInv'
<1>1. /\ task.pc = "layout" /\ role' = TRUE /\ GoTo("gbucket")
      /\ UNCHANGED <<key, bucket, boots, left, unheard, repo, cli, file, tasks>>
  BY DEF EnsureLayout
<1>2. "gbucket" \in TaskSteps /\ task.kind = "garage" BY <1>1 DEF TaskSteps, KeysInv, WayOK
<1>3. task' \in TaskRecords /\ task'.pc = "gbucket" /\ task'.kind = task.kind /\ UNCHANGED result
  BY <1>1, <1>2, GoToIs
<1>4. cli \in AKey BY DEF KeysInv, KeysType, StoresType
<1>5. Steady BY <1>1, <1>4, StoresStay DEF file
<1> QED BY <1>1, <1>2, <1>3, <1>5, KeysGoGarage DEF file

LEMMA EnsureGarageBucketKeeps == ASSUME KeysInv, EnsureGarageBucket PROVE KeysInv'
<1>1. /\ task.pc = "gbucket" /\ bucket' = bucket \cup {"garage"} /\ GoTo("gkey")
      /\ UNCHANGED <<key, role, boots, left, unheard, repo, cli, file, tasks>>
  BY DEF EnsureGarageBucket
<1>2. "gkey" \in TaskSteps /\ task.kind = "garage" BY <1>1 DEF TaskSteps, KeysInv, WayOK
<1>3. task' \in TaskRecords /\ task'.pc = "gkey" /\ task'.kind = task.kind /\ UNCHANGED result
  BY <1>1, <1>2, GoToIs
<1>4. cli \in AKey /\ role \in BOOLEAN BY DEF KeysInv, KeysType, StoresType
<1>5. Steady BY <1>1, <1>4, StoresStay DEF file, Stores
<1> QED BY <1>1, <1>2, <1>3, <1>5, KeysGoGarage DEF file

LEMMA KeyIsAdded ==
  ASSUME KeysInv, NEW k \in Unused, NEW store \in Stores, NEW grant \in BOOLEAN,
         key' = [key EXCEPT ![k] = [at |-> store, grant |-> grant, minted |-> TRUE]],
         UNCHANGED <<creds, read, repo, tasks, bucket, role, cli>>
  PROVE  Steady /\ k \in Keys /\ key'[k].at = store /\ key'[k].grant = grant
<1>1. k \in Keys /\ key[k].at = "none" BY DEF Unused
<1>2. key \in [Keys -> KeyRecords] BY DEF KeysInv, KeysType, StoresType
<1>3. [at |-> store, grant |-> grant, minted |-> TRUE] \in KeyRecords BY DEF KeyRecords, Places
<1>4. key' \in [Keys -> KeyRecords] BY <1>2, <1>3
<1>5. StoresType' BY <1>4 DEF KeysInv, KeysType, StoresType
<1>6. \A j \in Keys : key[j].at \in Stores => key'[j] = key[j] BY <1>1, <1>2 DEF Stores
<1>7. key'[k] = [at |-> store, grant |-> grant, minted |-> TRUE] BY <1>1, <1>2
<1> QED BY <1>1, <1>5, <1>6, <1>7 DEF Steady

LEMMA EnsureGarageKeyKeeps == ASSUME KeysInv, EnsureGarageKey PROVE KeysInv'
<1>1. task.pc = "gkey" /\ UNCHANGED <<bucket, role, boots, left, unheard, repo, cli, file, tasks>>
  BY DEF EnsureGarageKey
<1>2. cli \in AKey /\ role \in BOOLEAN /\ task \in TaskRecords BY DEF KeysInv, KeysType, StoresType
<1>3. "garage" \in bucket /\ task.kind = "garage" BY <1>1 DEF KeysInv, WayOK
<1>4. UNCHANGED <<creds, read, torn>> BY <1>1 DEF file
<1>5. ASSUME Steady, EndTask(FALSE) PROVE KeysInv'
  <2>1. task.pc \notin {"write"} \cup Bootstrapping BY <1>1 DEF Bootstrapping
  <2> QED BY <1>1, <1>4, <1>5, <2>1, KeysEndEarly
<1>6. ASSUME Steady, NEW k \in Keys, key'[k].at = "garage", task' = [task EXCEPT !.pc = "allow", !.at = k],
             UNCHANGED result
      PROVE  KeysInv'
  <2>1. task' \in TaskRecords /\ task'.pc = "allow" /\ task'.kind = task.kind /\ task'.at = k
    BY <1>2, <1>6 DEF TaskRecords, TaskSteps, AKey
  <2> QED BY <1>1, <1>3, <1>4, <1>6, <2>1, KeysGoGarage
<1>7. CASE EndTask(FALSE) /\ UNCHANGED key
  <2>1. Steady BY <1>1, <1>2, <1>4, <1>7, StoresStay
  <2> QED BY <2>1, <1>5, <1>7
<1>8. CASE At("garage") = {} /\ NewGarageKey
  <2>1. PICK k \in Unused :
           /\ key' = [key EXCEPT ![k] = [at |-> "garage", grant |-> FALSE, minted |-> TRUE]]
           /\ \/ EndTask(FALSE)
              \/ task' = [task EXCEPT !.pc = "allow", !.at = k] /\ UNCHANGED result
    BY <1>8 DEF NewGarageKey
  <2>2. Steady /\ k \in Keys /\ key'[k].at = "garage" BY <2>1, <1>1, <1>4, KeyIsAdded DEF Stores
  <2> QED BY <2>1, <2>2, <1>5, <1>6
<1>9. CASE At("garage") # {} /\ UNCHANGED key /\ task' = [task EXCEPT !.pc = "allow", !.at = Min(At("garage"))]
           /\ UNCHANGED result
  <2>1. At("garage") \in SUBSET Nat BY KeysAssumption DEF At
  <2>2. PICK m \in At("garage") : \A j \in At("garage") : m <= j BY <2>1, <1>9, Smallest
  <2>3. Min(At("garage")) \in At("garage") BY <2>2 DEF Min
  <2>4. Min(At("garage")) \in Keys /\ key[Min(At("garage"))].at = "garage" BY <2>3 DEF At
  <2>5. Steady BY <1>1, <1>2, <1>4, <1>9, StoresStay
  <2> QED BY <2>4, <2>5, <1>6, <1>9
<1>10. Cardinality({}) = 0 BY FS_EmptySet
<1>11. \/ EndTask(FALSE) /\ UNCHANGED key
       \/ At("garage") = {} /\ NewGarageKey
       \/ /\ At("garage") # {} /\ UNCHANGED key
          /\ task' = [task EXCEPT !.pc = "allow", !.at = Min(At("garage"))] /\ UNCHANGED result
  BY <1>10 DEF EnsureGarageKey
<1> QED BY <1>7, <1>8, <1>9, <1>11

----------------------------------------------------------------------------
(* Steps that settle what is to be written.                                *)

LEMMA KeysFill ==
  ASSUME KeysInv, Steady, UNCHANGED <<torn, result, boots, left, unheard>>,
         task.pc \in {"load", "spaceskey", "allow"},
         task' \in TaskRecords, task'.pc \in {"cli", "write"}, task'.kind = task.kind,
         task'.pc = "cli" <=> task.kind = "garage", task'.print => task'.pc = "cli",
         task'.kind = "restic" => Unmade,
         Untouched',
         task'.order \in {PgbrFields, ResticFields, GarageFields} \/ task'.order = <<>>,
         task'.order = GarageFields => task'.kind = "garage",
         \A f \in Fields \ task'.todo : creds[f] = task'.new[f],
         Unmade \/ task'.new.pw = creds.pw,
         task'.new.repo = "none" => creds.repo = "none",
         task'.new.pw = 0 => creds.pw = 0,
         NewOK'
  PROVE  KeysInv'
<1>1. KeysType' BY DEF KeysInv, KeysType, Steady
<1>2. BootsOK' BY DEF KeysInv, BootsOK, Bootstrapping, Steady
<1>3. RepoOK' BY DEF KeysInv, RepoOK, Unmade, Steady
<1>4. InPlan' BY FieldSets DEF InPlan, Untouched
<1>5. PlanOK' BY <1>4 DEF PlanOK, Filling, Steady
<1>6. FileOK' BY WholeStays DEF KeysInv, FileOK
<1>7. WayOK' BY DEF WayOK, Bootstrapping
<1>8. SuccessIsUsable' BY DEF SuccessIsUsable, Promised, KeysInv, BootsOK
<1> QED BY <1>1, <1>2, <1>3, <1>5, <1>6, <1>7, <1>8 DEF KeysInv

LEMMA ToWriteIs ==
  ASSUME KeysInv, NEW values \in Files, NEW pc \in TaskSteps,
         NEW order \in {PgbrFields, ResticFields, GarageFields}, ToWrite(values, order, pc)
  PROVE  /\ task' \in TaskRecords /\ task'.pc = pc /\ task'.kind = task.kind /\ task'.print = task.print
         /\ task'.new = values /\ task'.order = order /\ task'.todo = Range(order) /\ Untouched'
<1>1. task \in TaskRecords BY DEF KeysInv, KeysType
<1>2. Range(order) \in SUBSET Fields BY FieldSets
<1>3. order # <<>> BY FieldSets
<1>4. task' = [task EXCEPT !.pc = pc, !.new = values, !.todo = Range(order), !.order = order] BY DEF ToWrite
<1> QED BY <1>1, <1>2, <1>3, <1>4 DEF TaskRecords, Untouched

(* What Spaces gives is written to one half; the other is as it was.       *)
LEMMA SpacesFill ==
  ASSUME KeysInv, Steady, UNCHANGED <<torn, result, boots, left, unheard>>,
         task.pc \in {"load", "spaceskey"}, task.kind \in {"pgbackrest", "restic"}, ~task.print,
         task.kind = "restic" => Unmade,
         NEW a \in AKey, NEW b \in AKey, NEW place \in Stores,
         task.kind = "pgbackrest" => place = "spaces",
         ToWrite(SpacesValues([key |-> a, secret |-> b], place), ByOrder, "write"),
         ~torn => Works(place, a, b)'
  PROVE  KeysInv'
<1> DEFINE new == SpacesValues([key |-> a, secret |-> b], place)
<1>1. creds \in Files /\ tasks \in Passwords /\ tasks # 0
  BY KeysAssumption DEF KeysInv, KeysType, Passwords, BootsOK
<1>2. place \in Places /\ "spaces" \in Places /\ place # "none" BY DEF Stores, Places
<1>3. CASE task.kind = "pgbackrest"
  <2>1. new = [creds EXCEPT !.place = "spaces", !.path = TRUE, !.key = a, !.secret = b] BY <1>3 DEF SpacesValues
  <2>2. new \in Files /\ new.place = place /\ new.path /\ new.key = a /\ new.secret = b
        /\ new.repo = creds.repo /\ new.pw = creds.pw /\ new.rkey = creds.rkey /\ new.rsecret = creds.rsecret
    BY <1>1, <1>2, <1>3, <2>1 DEF Files
  <2>3. ByOrder = PgbrFields BY <1>3 DEF ByOrder
  <2> HIDE DEF new
  <2>4. PICK n \in Files : n = new BY <2>2
  <2>5. /\ task' \in TaskRecords /\ task'.pc = "write" /\ task'.kind = task.kind /\ task'.print = task.print
        /\ task'.new = n /\ task'.order = PgbrFields /\ task'.todo = Range(PgbrFields) /\ Untouched'
    <3>1. ToWrite(n, PgbrFields, "write") BY <2>3, <2>4 DEF new
    <3>2. "write" \in TaskSteps BY DEF TaskSteps
    <3> QED BY <3>1, <3>2, ToWriteIs
  <2>6. \A f \in Fields \ task'.todo : creds[f] = task'.new[f] BY <2>2, <2>4, <2>5, FieldSets
  <2>7. ~torn => ResticEmpty(n) \/ ResticGood(n)'
    <3>1. ~torn => (ResticEmpty(creds) \/ ResticGood(creds)) BY DEF KeysInv, FileOK, Whole
    <3> QED BY <3>1, <2>2, <2>4 DEF ResticEmpty, ResticGood, Works, Steady
  <2>8. ~torn => PgbrGood(n)' BY <2>2, <2>4 DEF PgbrGood, Works
  <2>9. task'.order # GarageFields BY <2>5, FieldSets
  <2>10. NewOK'
    <3>1. n.place = "spaces" BY <2>2, <2>4, <1>3
    <3> QED BY <3>1, <2>5, <2>7, <2>8, <2>9, <1>3 DEF NewOK, Whole, PgbrGood, ResticEmpty, ResticGood
  <2> QED BY <1>3, <2>2, <2>4, <2>5, <2>6, <2>9, <2>10, KeysFill
<1>4. CASE task.kind = "restic"
  <2>1. new = [creds EXCEPT !.repo = place, !.pw = tasks, !.rkey = a, !.rsecret = b] BY <1>4 DEF SpacesValues
  <2>2. new \in Files /\ new.place = creds.place /\ new.path = creds.path /\ new.key = creds.key
        /\ new.secret = creds.secret
        /\ new.repo = place /\ new.pw = tasks /\ new.rkey = a /\ new.rsecret = b
    BY <1>1, <1>2, <2>1 DEF Files
  <2>3. ByOrder = ResticFields BY <1>4 DEF ByOrder
  <2> HIDE DEF new
  <2>4. PICK n \in Files : n = new BY <2>2
  <2>5. /\ task' \in TaskRecords /\ task'.pc = "write" /\ task'.kind = task.kind /\ task'.print = task.print
        /\ task'.new = n /\ task'.order = ResticFields /\ task'.todo = Range(ResticFields) /\ Untouched'
    <3>1. ToWrite(n, ResticFields, "write") BY <2>3, <2>4 DEF new
    <3>2. "write" \in TaskSteps BY DEF TaskSteps
    <3> QED BY <3>1, <3>2, ToWriteIs
  <2>6. \A f \in Fields \ task'.todo : creds[f] = task'.new[f] BY <2>2, <2>4, <2>5, FieldSets
  <2>7. ~torn => PgbrEmpty(n) \/ PgbrGood(n)'
    <3>1. ~torn => (PgbrEmpty(creds) \/ PgbrGood(creds)) BY <1>4 DEF KeysInv, FileOK, Whole
    <3> QED BY <3>1, <2>2, <2>4 DEF PgbrEmpty, PgbrGood, Works, Steady
  <2>8. ~torn => ResticGood(n)' BY <1>1, <2>2, <2>4 DEF ResticGood, Works
  <2>9. task'.order # GarageFields BY <2>5, FieldSets
  <2>10. NewOK'
    <3>1. ~ResticEmpty(n) BY <2>2, <2>4, <1>2 DEF ResticEmpty
    <3> QED BY <3>1, <2>5, <2>7, <2>8, <2>9, <1>4 DEF NewOK, Whole, PgbrEmpty, PgbrGood, ResticGood, ResticEmpty
  <2>11. n.repo # "none" /\ n.pw # 0 BY <1>1, <1>2, <2>2, <2>4
  <2> QED BY <1>4, <2>5, <2>6, <2>9, <2>10, <2>11, KeysFill
<1> QED BY <1>3, <1>4

LEMMA SpacesAgreedKeeps == ASSUME KeysInv, SpacesAgreed PROVE KeysInv'
<1>1. /\ task.pc = "load" /\ task.kind # "garage" /\ UNCHANGED <<result, stores, file, tasks>>
      /\ IF task.kind = "pgbackrest" THEN ~PgbrOk ELSE ~ResticOk /\ ~ResticConflict
  BY DEF SpacesAgreed
<1>2. /\ cli \in AKey /\ role \in BOOLEAN /\ task \in TaskRecords /\ creds \in Files
      /\ task.kind \in {"pgbackrest", "restic"} /\ ~task.print
  BY <1>1 DEF KeysInv, KeysType, StoresType, TaskRecords, TaskKinds, WayOK
<1>3. Steady BY <1>1, <1>2, StoresStay DEF stores, file
<1>4. UNCHANGED <<torn, result, boots, left, unheard>> BY <1>1 DEF stores, file
<1>5. task.kind = "restic" => Unmade
  <2>1. ASSUME task.kind = "restic" PROVE creds.repo = "none" \/ creds.pw = 0
    BY <1>1, <2>1 DEF ResticOk, ResticConflict, SomeRestic
  <2> QED BY <2>1 DEF KeysInv, RepoOK
<1>6. CASE task.kind = "restic" /\ PgbrOk /\ ToWrite(SpacesValues(PgbrPair, creds.place), ByOrder, "write")
  <2>1. creds.place \in Stores /\ creds.key \in AKey /\ creds.secret \in AKey
    BY <1>2, <1>6 DEF Files, Places, PgbrOk
  <2>2. ~torn => Works(creds.place, creds.key, creds.secret)
    BY <1>1, <1>6, HalvesWork DEF PgbrOk, SomePgbr, PgbrWorks
  <2>3. PICK p \in Stores, a \in AKey, b \in AKey : p = creds.place /\ a = creds.key /\ b = creds.secret
    BY <2>1
  <2>4. ~torn => Works(p, a, b)' BY <2>2, <2>3, <1>3 DEF Works, Steady
  <2>5. ToWrite(SpacesValues([key |-> a, secret |-> b], p), ByOrder, "write") BY <1>6, <2>3 DEF PgbrPair
  <2> QED BY <1>1, <1>2, <1>3, <1>4, <1>5, <1>6, <2>4, <2>5, SpacesFill
<1>7. CASE (task.kind = "restic" => ~PgbrOk) /\ task' = [task EXCEPT !.pc = "boot"]
  <2>1. task' \in TaskRecords /\ task'.pc = "boot" /\ task'.kind = task.kind /\ task'.print = task.print
    BY <1>2, <1>7 DEF TaskRecords, TaskSteps
  <2>2. BootsOK' BY <1>1, <1>4, <2>1 DEF KeysInv, BootsOK, Bootstrapping
  <2>3. WayOK' BY <1>1, <1>2, <1>7, <2>1, FilesAsRead DEF WayOK, Bootstrapping, file
  <2>4. boots' \in Nat /\ left' \in Nat /\ unheard' \in Nat BY <1>4 DEF KeysInv, KeysType
  <2> QED BY <1>1, <1>3, <1>4, <1>5, <2>1, <2>2, <2>3, <2>4, KeysGo DEF Filling
<1> QED BY <1>6, <1>7 DEF SpacesAgreed

(* The half that a new key is for gets the place the other half has only   *)
(* where that is Spaces: the other half is empty, or its key would be in   *)
(* the way of the new one.                                                 *)
LEMMA NewKeyIsAlone ==
  ASSUME KeysInv, task.pc = "spaceskey", task.kind = "restic", At("spaces") = {}, ~torn
  PROVE  creds.place = "none"
<1>1. ~PgbrOk /\ ~ResticConflict BY SpacesWayKnows DEF KeysInv, WayOK
<1>2. Whole(creds) /\ creds \in Files BY DEF KeysInv, FileOK, KeysType
<1>3. CASE PgbrEmpty(creds) BY <1>3 DEF PgbrEmpty
<1>4. CASE PgbrGood(creds)
  <2>1. creds.place \in Stores /\ creds.key \in Keys /\ creds.secret = creds.key /\ creds.path
        /\ key[creds.key].at = creds.place
    BY <1>4 DEF PgbrGood, Works
  <2>2. creds.key # 0 BY <2>1, KeysAssumption
  <2>3. read BY <1>1, <2>1, <2>2 DEF PgbrOk, Stores
  <2>4. ResticEmpty(creds) BY <1>1, <2>3 DEF ResticConflict, SomeRestic, ResticEmpty
  <2>5. creds.place = "spaces" BY <2>1, <2>4, <1>2 DEF Whole, Stores
  <2>6. creds.key \in At("spaces") BY <2>1, <2>5 DEF At
  <2> QED BY <2>6
<1> QED BY <1>2, <1>3, <1>4 DEF Whole

LEMMA CreateSpacesKeyKeeps == ASSUME KeysInv, CreateSpacesKey PROVE KeysInv'
<1>1. /\ task.pc = "spaceskey" /\ UNCHANGED <<bucket, role, boots, left, unheard, repo, cli, file, tasks>>
      /\ UNCHANGED <<creds, read, torn>>
  BY DEF CreateSpacesKey, file
<1>2. /\ task.kind \in {"pgbackrest", "restic"} /\ ~task.print /\ (task.kind = "restic" => Unmade)
      /\ "spaces" \in bucket
  BY <1>1, SpacesWayKnows DEF KeysInv, WayOK
<1>3. ASSUME Steady, EndTask(FALSE) PROVE KeysInv'
  <2>1. task.pc \notin {"write"} \cup Bootstrapping BY <1>1 DEF Bootstrapping
  <2> QED BY <1>1, <1>3, <2>1, KeysEndEarly
<1>4. CASE EndTask(FALSE) /\ UNCHANGED key
  <2>1. cli \in AKey /\ role \in BOOLEAN BY DEF KeysInv, KeysType, StoresType
  <2>2. Steady BY <1>1, <1>4, <2>1, StoresStay
  <2> QED BY <2>2, <1>3, <1>4
<1>5. ASSUME At("spaces") = {}, NEW k \in Unused,
             key' = [key EXCEPT ![k] = [at |-> "spaces", grant |-> TRUE, minted |-> TRUE]],
             \/ EndTask(FALSE)
             \/ /\ ToWrite(SpacesValues(Pair(k), PlaceOr(creds.place, "spaces")), ByOrder, "write")
                /\ UNCHANGED result
      PROVE  KeysInv'
  <2>1. Steady /\ k \in Keys /\ key'[k].at = "spaces" /\ key'[k].grant
    BY <1>1, <1>5, KeyIsAdded DEF Stores
  <2>2. CASE EndTask(FALSE) BY <2>1, <2>2, <1>3
  <2>3. CASE /\ ToWrite(SpacesValues(Pair(k), PlaceOr(creds.place, "spaces")), ByOrder, "write")
             /\ UNCHANGED result
    <3>1. PICK p \in Stores : p = IF task.kind = "restic" THEN PlaceOr(creds.place, "spaces") ELSE "spaces"
      BY DEF KeysInv, KeysType, Files, PlaceOr, Places, Stores
    <3>2. SpacesValues(Pair(k), PlaceOr(creds.place, "spaces")) = SpacesValues([key |-> k, secret |-> k], p)
      BY <1>2, <3>1 DEF SpacesValues, Pair
    <3>3. ~torn => p = "spaces" BY <1>1, <1>5, <3>1, NewKeyIsAlone DEF PlaceOr
    <3>4. ~torn => Works(p, k, k)' BY <1>1, <1>2, <2>1, <3>3 DEF Works, Stores
    <3>5. k \in AKey BY <2>1 DEF AKey
    <3> QED BY <1>1, <1>2, <2>1, <2>3, <3>1, <3>2, <3>4, <3>5, SpacesFill
  <2> QED BY <1>5, <2>2, <2>3
<1> QED BY <1>4, <1>5 DEF CreateSpacesKey

(* A half of the file, or a new key, gives both halves at Garage.          *)
LEMMA PasswordIs ==
  ASSUME KeysInv, task.pc # "idle"
  PROVE  /\ Password \in Passwords /\ Password # 0
         /\ Unmade \/ Password = creds.pw
         /\ creds.pw # 0 => Password = creds.pw
<1>1. tasks \in Passwords /\ tasks # 0 /\ creds.pw \in Passwords
  BY KeysAssumption DEF KeysInv, KeysType, Passwords, BootsOK, Files
<1>2. creds.pw = 0 => Unmade BY DEF KeysInv, RepoOK
<1> QED BY <1>1, <1>2 DEF Password

LEMMA GarageValuesIs ==
  ASSUME KeysInv, task.pc # "idle", NEW a \in AKey, NEW b \in AKey, NEW place \in Stores
  PROVE  \E n \in Files :
            /\ n = GarageValues([key |-> a, secret |-> b], place)
            /\ n.place = place /\ n.path /\ n.key = a /\ n.secret = b
            /\ n.repo = place /\ n.pw = Password /\ n.rkey = a /\ n.rsecret = b
<1> DEFINE n == GarageValues([key |-> a, secret |-> b], place)
<1>1. place \in Places BY DEF Stores, Places
<1>2. Password \in Passwords BY PasswordIs
<1>3. n \in Files BY <1>1, <1>2 DEF GarageValues, Files
<1>4. /\ n.place = place /\ n.path /\ n.key = a /\ n.secret = b
      /\ n.repo = place /\ n.pw = Password /\ n.rkey = a /\ n.rsecret = b
  BY DEF GarageValues
<1> QED BY <1>3, <1>4

LEMMA GarageFill ==
  ASSUME KeysInv, Steady, UNCHANGED <<torn, result, boots, left, unheard>>,
         task.pc \in {"load", "allow"}, task.kind = "garage",
         NEW a \in AKey, NEW b \in AKey, NEW place \in Stores,
         task' \in TaskRecords, task'.pc = "cli", task'.kind = task.kind,
         task'.new = GarageValues([key |-> a, secret |-> b], place),
         task'.order \in {<<>>, GarageFields}, Untouched',
         \A f \in Fields \ task'.todo : creds[f] = task'.new[f],
         ~torn \/ task'.order = GarageFields => Works(place, a, b)'
  PROVE  KeysInv'
<1>1. PICK n \in Files :
        /\ n = GarageValues([key |-> a, secret |-> b], place)
        /\ n.place = place /\ n.path /\ n.key = a /\ n.secret = b
        /\ n.repo = place /\ n.pw = Password /\ n.rkey = a /\ n.rsecret = b
  BY GarageValuesIs
<1>2. task'.new = n BY <1>1
<1>3. place # "none" BY DEF Stores
<1>4. /\ n.pw # 0 /\ n.repo # "none" /\ (Unmade \/ n.pw = creds.pw) BY <1>1, <1>3, PasswordIs
<1>5. ~torn \/ task'.order = GarageFields => PgbrGood(n)' /\ ResticGood(n)'
  BY <1>1, <1>4 DEF PgbrGood, ResticGood, Works
<1>6. NewOK'
  <2>1. ~ResticEmpty(n) BY <1>4 DEF ResticEmpty
  <2>2. ~torn' \/ task'.order = GarageFields => PgbrGood(n)' /\ ResticGood(n)' BY <1>5
  <2> QED BY <1>2, <2>1, <2>2 DEF NewOK, Whole, PgbrGood, ResticGood, ResticEmpty
<1> QED BY <1>2, <1>4, <1>6, KeysFill

LEMMA ReusePgbrKeeps == ASSUME KeysInv, ReusePgbr PROVE KeysInv'
<1>1. /\ task.pc = "load" /\ task.kind = "garage" /\ PgbrOk /\ UNCHANGED <<result, stores, file, tasks>>
      /\ task' = [task EXCEPT !.pc = "cli", !.at = creds.key, !.todo = Range(ResticFields),
                     !.new = GarageValues(PgbrPair, PgbrPlace)]
  BY DEF ReusePgbr
<1>2. /\ cli \in AKey /\ role \in BOOLEAN /\ task \in TaskRecords /\ creds \in Files /\ task.order = <<>>
  BY <1>1 DEF KeysInv, KeysType, StoresType, WayOK
<1>3. Steady BY <1>1, <1>2, StoresStay DEF stores, file
<1>4. UNCHANGED <<torn, result, boots, left, unheard>> BY <1>1 DEF stores, file
<1>5. creds.place \in Stores /\ creds.key \in AKey /\ creds.secret \in AKey /\ creds.path
  BY <1>1, <1>2 DEF Files, Places, Stores, PgbrOk
<1>6. ~torn => Works(creds.place, creds.key, creds.secret)
  BY <1>1, HalvesWork DEF PgbrOk, SomePgbr, PgbrWorks
<1>7. PICK p \in Stores, a \in AKey, b \in AKey : p = creds.place /\ a = creds.key /\ b = creds.secret
  BY <1>5
<1>8. GarageValues(PgbrPair, PgbrPlace) = GarageValues([key |-> a, secret |-> b], p)
  BY <1>7 DEF PgbrPair, PgbrPlace, GarageValues
<1>9. PICK n \in Files :
        /\ n = GarageValues([key |-> a, secret |-> b], p)
        /\ n.place = p /\ n.path /\ n.key = a /\ n.secret = b
        /\ n.repo = p /\ n.pw = Password /\ n.rkey = a /\ n.rsecret = b
  BY <1>1, GarageValuesIs
<1>10. /\ task' \in TaskRecords /\ task'.pc = "cli" /\ task'.kind = task.kind /\ task'.new = n
       /\ task'.order = <<>> /\ task'.todo = Range(ResticFields)
  <2>1. Range(ResticFields) \in SUBSET Fields BY FieldSets
  <2> QED BY <1>1, <1>2, <1>5, <1>8, <1>9, <2>1 DEF TaskRecords, TaskSteps
<1>11. \A f \in Fields \ task'.todo : creds[f] = task'.new[f]
  <2>1. creds.path = TRUE /\ n.path = TRUE BY <1>2, <1>5, <1>9 DEF Files
  <2>2. creds.place = n.place /\ creds.key = n.key /\ creds.secret = n.secret /\ creds.path = n.path
    BY <1>7, <1>9, <2>1
  <2>3. Fields \ task'.todo = {"place", "path", "key", "secret"} BY <1>10, FieldSets
  <2> QED BY <2>2, <2>3, <1>10
<1>12. Untouched' BY <1>10 DEF Untouched
<1>13. ~torn => Works(p, a, b)' BY <1>6, <1>7, <1>3 DEF Works, Steady
<1>14. task'.order # GarageFields BY <1>10, FieldSets
<1> QED BY <1>1, <1>3, <1>4, <1>9, <1>10, <1>11, <1>12, <1>13, <1>14, GarageFill

LEMMA ReuseResticKeeps == ASSUME KeysInv, ReuseRestic PROVE KeysInv'
<1>1. /\ task.pc = "load" /\ task.kind = "garage" /\ ResticOk /\ UNCHANGED <<result, stores, file, tasks>>
      /\ task' = [task EXCEPT !.pc = "cli", !.at = creds.rkey, !.todo = Range(PgbrFields),
                     !.new = GarageValues(ResticPair, ResticPlace)]
  BY DEF ReuseRestic
<1>2. /\ cli \in AKey /\ role \in BOOLEAN /\ task \in TaskRecords /\ creds \in Files /\ task.order = <<>>
  BY <1>1 DEF KeysInv, KeysType, StoresType, WayOK
<1>3. Steady BY <1>1, <1>2, StoresStay DEF stores, file
<1>4. UNCHANGED <<torn, result, boots, left, unheard>> BY <1>1 DEF stores, file
<1>5. creds.repo \in Stores /\ creds.rkey \in AKey /\ creds.rsecret \in AKey /\ creds.pw # 0
  BY <1>1, <1>2 DEF Files, Places, Stores, ResticOk
<1>6. ~torn => Works(creds.repo, creds.rkey, creds.rsecret)
  BY <1>1, HalvesWork DEF ResticOk, SomeRestic, ResticWorks
<1>7. PICK p \in Stores, a \in AKey, b \in AKey : p = creds.repo /\ a = creds.rkey /\ b = creds.rsecret
  BY <1>5
<1>8. GarageValues(ResticPair, ResticPlace) = GarageValues([key |-> a, secret |-> b], p)
  BY <1>7 DEF ResticPair, ResticPlace, GarageValues
<1>9. PICK n \in Files :
        /\ n = GarageValues([key |-> a, secret |-> b], p)
        /\ n.place = p /\ n.path /\ n.key = a /\ n.secret = b
        /\ n.repo = p /\ n.pw = Password /\ n.rkey = a /\ n.rsecret = b
  BY <1>1, GarageValuesIs
<1>10. /\ task' \in TaskRecords /\ task'.pc = "cli" /\ task'.kind = task.kind /\ task'.new = n
       /\ task'.order = <<>> /\ task'.todo = Range(PgbrFields)
  <2>1. Range(PgbrFields) \in SUBSET Fields BY FieldSets
  <2> QED BY <1>1, <1>2, <1>5, <1>8, <1>9, <2>1 DEF TaskRecords, TaskSteps
<1>11. \A f \in Fields \ task'.todo : creds[f] = task'.new[f]
  <2>1. Password = creds.pw BY <1>1, <1>5, PasswordIs
  <2> QED BY <2>1, <1>5, <1>7, <1>9, <1>10, FieldSets
<1>12. Untouched' BY <1>10 DEF Untouched
<1>13. ~torn => Works(p, a, b)' BY <1>6, <1>7, <1>3 DEF Works, Steady
<1>14. task'.order # GarageFields BY <1>10, FieldSets
<1> QED BY <1>1, <1>3, <1>4, <1>9, <1>10, <1>11, <1>12, <1>13, <1>14, GarageFill

LEMMA AllowKeyKeeps == ASSUME KeysInv, AllowKey PROVE KeysInv'
<1>1. /\ task.pc = "allow" /\ key' = [key EXCEPT ![task.at].grant = TRUE]
      /\ ToWrite(GarageValues(Pair(task.at), "garage"), GarageFields, "cli")
      /\ UNCHANGED <<result, bucket, role, boots, left, unheard, repo, cli, file, tasks>>
  BY DEF AllowKey
<1>2. /\ StoresType /\ task.kind = "garage" /\ "garage" \in bucket
      /\ task.at \in Keys /\ key[task.at].at = "garage"
  BY <1>1 DEF KeysInv, KeysType, WayOK
<1>3. PICK k \in Keys : k = task.at BY <1>2
<1>4. key[k] \in KeyRecords /\ key \in [Keys -> KeyRecords] BY <1>2 DEF StoresType
<1>5. key' = [key EXCEPT ![k] = [key[k] EXCEPT !.grant = TRUE]] BY <1>1, <1>3
<1>6. [key[k] EXCEPT !.grant = TRUE] \in KeyRecords BY <1>4 DEF KeyRecords
<1>7. key' \in [Keys -> KeyRecords] /\ key'[k] = [key[k] EXCEPT !.grant = TRUE] BY <1>4, <1>5, <1>6
<1>8. key'[k].at = "garage" /\ key'[k].grant BY <1>2, <1>3, <1>4, <1>7 DEF KeyRecords
<1>9. \A j \in Keys : key'[j].at = key[j].at /\ (key[j].grant => key'[j].grant)
  <2>1. \A j \in Keys : j # k => key'[j] = key[j] BY <1>4, <1>5
  <2> QED BY <2>1, <1>2, <1>3, <1>8
<1>10. Steady BY <1>1, <1>2, <1>7, <1>9 DEF Steady, StoresType, file
<1>11. Works("garage", k, k)' BY <1>1, <1>2, <1>8 DEF Works, Stores
<1>12. k \in AKey /\ "garage" \in Stores BY DEF AKey, Stores
<1>13. PICK n \in Files : n = GarageValues([key |-> k, secret |-> k], "garage") BY <1>1, <1>12, GarageValuesIs
<1>14. /\ task' \in TaskRecords /\ task'.pc = "cli" /\ task'.kind = task.kind /\ task'.new = n
       /\ task'.order = GarageFields /\ task'.todo = Range(GarageFields) /\ Untouched'
  <2>1. ToWrite(n, GarageFields, "cli") BY <1>1, <1>3, <1>13 DEF Pair
  <2>2. "cli" \in TaskSteps BY DEF TaskSteps
  <2> QED BY <2>1, <2>2, ToWriteIs
<1>15. \A f \in Fields \ task'.todo : creds[f] = task'.new[f] BY <1>14, FieldSets
<1>16. UNCHANGED <<torn, result, boots, left, unheard>> BY <1>1 DEF file
<1> QED BY <1>1, <1>2, <1>10, <1>11, <1>12, <1>13, <1>14, <1>15, <1>16, GarageFill

----------------------------------------------------------------------------
(* Steps with the values settled, and those between two commands.          *)

(* The plan and the values stay, and nothing is written.                   *)
LEMMA KeysHold ==
  ASSUME KeysInv, Steady, UNCHANGED <<torn, result, boots, left, unheard>>,
         task.pc \in {"cli", "confirm"}, NEW pc \in {"confirm", "write"}, ~task.print, GoTo(pc)
  PROVE  KeysInv'
<1>1. pc \in TaskSteps BY DEF TaskSteps
<1>2. /\ task' \in TaskRecords /\ task'.pc = pc /\ task'.kind = task.kind /\ task'.print = task.print
      /\ task'.todo = task.todo /\ task'.order = task.order /\ task'.new = task.new
  BY <1>1, GoToIs
<1>3. KeysType' BY <1>2 DEF KeysInv, KeysType, Steady
<1>4. BootsOK' BY <1>2 DEF KeysInv, BootsOK, Bootstrapping, Steady
<1>5. RepoOK' BY <1>2 DEF KeysInv, RepoOK, Unmade, Filling, Steady
<1>6. InPlan /\ Untouched BY DEF KeysInv, PlanOK, Filling
<1>7. InPlan' /\ Untouched' BY <1>2, <1>6 DEF InPlan, Untouched
<1>8. PlanOK' BY <1>2, <1>7 DEF KeysInv, PlanOK, Filling, Steady
<1>9. FileOK' BY <1>2, WholeStays DEF KeysInv, FileOK
<1>10. NewOK'
  <2>1. Steady => /\ Whole(task.new) => Whole(task.new)'
                  /\ PgbrGood(task.new) => PgbrGood(task.new)'
                  /\ ResticGood(task.new) => ResticGood(task.new)'
    BY <1>2 DEF Steady, Whole, PgbrEmpty, ResticEmpty, PgbrGood, ResticGood, Works
  <2> QED BY <1>2, <2>1 DEF KeysInv, NewOK, Filling
<1>11. WayOK' BY <1>2 DEF KeysInv, WayOK, Bootstrapping
<1>12. SuccessIsUsable' BY DEF SuccessIsUsable, Promised, KeysInv, BootsOK
<1> QED BY <1>3, <1>4, <1>5, <1>8, <1>9, <1>10, <1>11, <1>12 DEF KeysInv

LEMMA InstallCliKeeps == ASSUME KeysInv, InstallCli PROVE KeysInv'
<1>1. /\ task.pc = "cli" /\ cli' \in CliMayHave(task.at)
      /\ IF task.print THEN EndTask(TRUE) ELSE GoTo("confirm")
      /\ UNCHANGED <<key, bucket, role, boots, left, unheard, repo, file, tasks>>
  BY DEF InstallCli
<1>2. cli \in AKey /\ role \in BOOLEAN /\ task.at \in AKey
  BY DEF KeysInv, KeysType, StoresType, TaskRecords
<1>3. cli' \in AKey /\ role' \in BOOLEAN BY <1>1, <1>2 DEF CliMayHave
<1>4. Steady BY <1>1, <1>3, StoresStay DEF file
<1>5. UNCHANGED <<torn, boots, left, unheard>> BY <1>1 DEF file
<1>6. CASE task.print /\ EndTask(TRUE)
  <2>1. task.pc \notin {"write"} \cup Bootstrapping BY <1>1 DEF Bootstrapping
  <2> QED BY <1>4, <1>5, <1>6, <2>1, KeysEndEarly
<1>7. CASE ~task.print /\ GoTo("confirm")
  <2>1. UNCHANGED result BY <1>7 DEF GoTo
  <2> QED BY <1>1, <1>4, <1>5, <1>7, <2>1, KeysHold
<1> QED BY <1>1, <1>6, <1>7

LEMMA ConfirmKeeps == ASSUME KeysInv, Confirm PROVE KeysInv'
<1>1. task.pc = "confirm" /\ (GoTo("write") \/ EndTask(FALSE)) /\ UNCHANGED <<stores, file, tasks>>
  BY DEF Confirm
<1>2. cli \in AKey /\ role \in BOOLEAN BY DEF KeysInv, KeysType, StoresType
<1>3. Steady BY <1>1, <1>2, StoresStay DEF stores, file
<1>4. UNCHANGED <<torn, boots, left, unheard>> BY <1>1 DEF stores, file
<1>5. CASE EndTask(FALSE)
  <2>1. task.pc \notin {"write"} \cup Bootstrapping BY <1>1 DEF Bootstrapping
  <2> QED BY <1>3, <1>4, <1>5, <2>1, KeysEndEarly
<1>6. CASE GoTo("write")
  <2>1. UNCHANGED result BY <1>6 DEF GoTo
  <2>2. ~task.print BY <1>1 DEF KeysInv, PlanOK, Filling
  <2> QED BY <1>1, <1>3, <1>4, <1>6, <2>1, <2>2, KeysHold
<1> QED BY <1>1, <1>5, <1>6

LEMMA InitRepositoryKeeps == ASSUME KeysInv, InitRepository PROVE KeysInv'
<1>1. /\ task.pc = "idle" /\ ResticOk /\ repo' = [repo EXCEPT ![creds.repo] = creds.pw]
      /\ UNCHANGED <<key, bucket, role, boots, left, unheard, cli, file, task, result, tasks>>
      /\ UNCHANGED <<creds, read, torn>>
  BY DEF InitRepository, file
<1>2. creds \in Files /\ repo \in [Stores -> Passwords] BY DEF KeysInv, KeysType, StoresType
<1>3. PICK s \in Stores, w \in Passwords : s = creds.repo /\ w = creds.pw /\ w # 0
  BY <1>1, <1>2 DEF ResticOk, Files, Places
<1>4. repo' = [repo EXCEPT ![s] = w] BY <1>1, <1>3
<1>5. repo' \in [Stores -> Passwords] /\ (\A t \in Stores : repo'[t] = IF t = s THEN w ELSE repo[t])
  BY <1>2, <1>4
<1>6. KeysType' BY <1>1, <1>5 DEF KeysInv, KeysType, StoresType
<1>7. BootsOK' BY <1>1 DEF KeysInv, BootsOK, Bootstrapping
<1>8. RepoOK'
  <2>1. creds.repo # "none" /\ creds.pw # 0 BY <1>1 DEF ResticOk
  <2>2. \A t \in Stores : repo'[t] # 0 => creds.pw = repo'[t] BY <1>3, <1>5 DEF KeysInv, RepoOK
  <2> QED BY <1>1, <2>1, <2>2 DEF RepoOK, Filling
<1>9. PlanOK' /\ NewOK' BY <1>1 DEF PlanOK, NewOK, Filling
<1>10. FileOK' BY <1>1 DEF KeysInv, FileOK, Whole, PgbrEmpty, ResticEmpty, PgbrGood, ResticGood, Works, Untouched
<1>11. WayOK' BY <1>1 DEF KeysInv, WayOK, Bootstrapping
<1>12. SuccessIsUsable' BY <1>1 DEF KeysInv, SuccessIsUsable, Promised, PgbrWorks, ResticWorks, Works
<1> QED BY <1>6, <1>7, <1>8, <1>9, <1>10, <1>11, <1>12 DEF KeysInv

LEMMA DeleteStrayKeeps == ASSUME KeysInv, NEW k \in Keys, DeleteStray(k) PROVE KeysInv'
<1>1. /\ task.pc = "idle" /\ k \notin {creds.key, creds.secret, creds.rkey, creds.rsecret}
      /\ key' = [key EXCEPT ![k].at = "gone"]
      /\ UNCHANGED <<bucket, role, boots, left, unheard, repo, cli, file, task, result, tasks>>
      /\ UNCHANGED <<creds, read, torn>>
  BY DEF DeleteStray, file
<1>2. key \in [Keys -> KeyRecords] BY DEF KeysInv, KeysType, StoresType
<1>3. [key[k] EXCEPT !.at = "gone"] \in KeyRecords BY <1>2 DEF KeyRecords
<1>4. key' = [key EXCEPT ![k] = [key[k] EXCEPT !.at = "gone"]] BY <1>1
<1>5. key' \in [Keys -> KeyRecords] /\ (\A j \in Keys : j # k => key'[j] = key[j]) BY <1>2, <1>3, <1>4
<1>6. KeysType' BY <1>1, <1>5 DEF KeysInv, KeysType, StoresType
<1>7. BootsOK' BY <1>1 DEF KeysInv, BootsOK, Bootstrapping
<1>8. RepoOK' BY <1>1 DEF KeysInv, RepoOK, Unmade, Filling
<1>9. PlanOK' /\ NewOK' BY <1>1 DEF PlanOK, NewOK, Filling
<1>10. /\ PgbrGood(creds) => PgbrGood(creds)'
       /\ ResticGood(creds) => ResticGood(creds)'
       /\ PgbrWorks => PgbrWorks'
       /\ ResticWorks => ResticWorks'
  BY <1>1, <1>5 DEF PgbrGood, ResticGood, PgbrWorks, ResticWorks, Works
<1>11. FileOK'
  <2>1. ~torn => Whole(creds) BY <1>1 DEF KeysInv, FileOK
  <2> QED BY <1>1, <1>10, <2>1 DEF FileOK, Whole, PgbrEmpty, ResticEmpty
<1>12. WayOK' BY <1>1 DEF KeysInv, WayOK, Bootstrapping
<1>13. SuccessIsUsable' BY <1>1, <1>10 DEF KeysInv, SuccessIsUsable, Promised
<1> QED BY <1>6, <1>7, <1>8, <1>9, <1>11, <1>12, <1>13 DEF KeysInv

----------------------------------------------------------------------------
(* One field is set.                                                       *)

SetIn(c, n, f) == [c EXCEPT ![f] = n[f]]

LEMMA FieldIsSet ==
  ASSUME NEW c \in Files, NEW n \in Files, NEW f \in Fields
  PROVE  LET d == SetIn(c, n, f) IN d \in Files /\ d[f] = n[f] /\ \A g \in Fields : g # f => d[g] = c[g]
<1> DEFINE d == SetIn(c, n, f)
<1>0. d = [c EXCEPT ![f] = n[f]] BY DEF SetIn
<1> HIDE DEF d
<1>1. d[f] = n[f] /\ \A g \in Fields : g # f => d[g] = c[g] BY <1>0, FieldSets DEF Files
<1>2. d \in Files
  <2>1. CASE f = "place" BY <1>0, <2>1 DEF Files
  <2>2. CASE f = "path" BY <1>0, <2>2 DEF Files
  <2>3. CASE f = "key" BY <1>0, <2>3 DEF Files
  <2>4. CASE f = "secret" BY <1>0, <2>4 DEF Files
  <2>5. CASE f = "repo" BY <1>0, <2>5 DEF Files
  <2>6. CASE f = "pw" BY <1>0, <2>6 DEF Files
  <2>7. CASE f = "rkey" BY <1>0, <2>7 DEF Files
  <2>8. CASE f = "rsecret" BY <1>0, <2>8 DEF Files
  <2> QED BY <2>1, <2>2, <2>3, <2>4, <2>5, <2>6, <2>7, <2>8, FieldSets
<1> QED BY <1>1, <1>2 DEF d

LEMMA SetFieldKeeps == ASSUME KeysInv, SetField PROVE KeysInv'
<1>1. task.pc = "write" /\ UNCHANGED <<read, stores, tasks>> BY DEF SetField
<1>2. PICK f \in task.todo :
        /\ creds' = [creds EXCEPT ![f] = task.new[f]]
        /\ IF task.todo = {f}
           THEN EndTask(TRUE) /\ torn' = (torn /\ task.order # GarageFields)
           ELSE /\ task' = [task EXCEPT !.todo = @ \ {f}]
                /\ UNCHANGED <<result, torn>>
  BY DEF SetField, NextFields
<1>3. /\ creds \in Files /\ task \in TaskRecords /\ task.new \in Files /\ f \in Fields /\ torn \in BOOLEAN
      /\ task.todo \in SUBSET Fields
  BY <1>2 DEF KeysInv, KeysType, TaskRecords
<1>4. creds' \in Files /\ creds'[f] = task.new[f] /\ \A g \in Fields : g # f => creds'[g] = creds[g]
  <2>1. PICK c \in Files, n \in Files : c = creds /\ n = task.new BY <1>3
  <2>2. creds' = SetIn(c, n, f) BY <1>2, <2>1 DEF SetIn
  <2>3. f \in Fields BY <1>3
  <2>4. /\ SetIn(c, n, f) \in Files
        /\ SetIn(c, n, f)[f] = n[f]
        /\ \A g \in Fields : g # f => SetIn(c, n, f)[g] = c[g]
    BY <2>1, <2>3, FieldIsSet
  <2> QED BY <2>1, <2>2, <2>4
<1>5. \A g \in Fields \ (task.todo \ {f}) : creds'[g] = task.new[g]
  BY <1>1, <1>4 DEF KeysInv, PlanOK, Filling
<1>6. /\ creds'.repo = creds.repo \/ creds'.repo = task.new.repo
      /\ creds'.pw = creds.pw \/ creds'.pw = task.new.pw
  BY <1>4, FieldSets
<1>7. /\ (Unmade \/ task.new.pw = creds.pw) /\ (task.new.repo = "none" => creds.repo = "none")
      /\ task.new.pw = 0 => creds.pw = 0
  BY <1>1 DEF KeysInv, RepoOK, Filling
<1>8. /\ creds'.repo = "none" \/ creds'.pw = 0 => Unmade'
      /\ \A s \in Stores : repo'[s] # 0 => creds'.pw = repo'[s]
      /\ Unmade' \/ task.new.pw = creds'.pw
      /\ task.new.repo = "none" => creds'.repo = "none"
      /\ task.new.pw = 0 => creds'.pw = 0
  BY <1>1, <1>6, <1>7 DEF KeysInv, RepoOK, Unmade, stores
<1>9. /\ StoresType' /\ boots' = left' + unheard' /\ left' + unheard' <= tasks' /\ tasks' \in 0..MaxTasks
      /\ boots' \in Nat /\ left' \in Nat /\ unheard' \in Nat
  BY <1>1 DEF KeysInv, KeysType, StoresType, BootsOK, Bootstrapping, stores
<1>10. CASE task.todo = {f}
  <2>1. EndTask(TRUE) /\ torn' = (torn /\ task.order # GarageFields) BY <1>2, <1>10
  <2>2. task' = NoTask /\ result' = [kind |-> task.kind, ok |-> TRUE, print |-> task.print] BY <2>1 DEF EndTask
  <2>3. task'.pc = "idle" /\ task'.kind = "garage" /\ task' \in TaskRecords /\ ~task'.print /\ task'.order = <<>>
    BY <2>2, NoTaskIsTask DEF NoTask
  <2>4. result' \in Results /\ torn' \in BOOLEAN BY <2>1, <2>2, <1>3 DEF Results, TaskRecords
  <2>5. KeysType' BY <1>1, <1>4, <1>9, <2>3, <2>4 DEF KeysInv, KeysType
  <2>6. BootsOK' BY <1>9, <2>3 DEF BootsOK, Bootstrapping
  <2>7. RepoOK' BY <1>8, <2>3 DEF RepoOK, Filling
  <2>8. PlanOK' /\ NewOK' /\ WayOK' BY <2>3 DEF PlanOK, NewOK, WayOK, Filling, Bootstrapping
  <2>9. PICK c \in Files : c = task.new BY <1>3
  <2>10. \A g \in Fields : creds'[g] = c[g] BY <1>5, <1>10, <2>9
  <2>11. /\ creds'.place = c.place /\ creds'.path = c.path /\ creds'.key = c.key /\ creds'.secret = c.secret
         /\ creds'.repo = c.repo /\ creds'.pw = c.pw /\ creds'.rkey = c.rkey /\ creds'.rsecret = c.rsecret
    BY <2>10, FieldSets
  <2>12. ~torn' =>
           /\ Whole(c)
           /\ task.kind \in {"pgbackrest", "garage"} => PgbrGood(c)
           /\ task.kind \in {"restic", "garage"} => ResticGood(c)
    BY <1>1, <1>3, <2>1, <2>9 DEF KeysInv, NewOK, Filling
  <2>13. FileOK'
    <3>1. Whole(c) => Whole(creds)'
      BY <1>1, <2>11 DEF Whole, PgbrEmpty, ResticEmpty, PgbrGood, ResticGood, Works, stores
    <3> QED BY <2>12, <3>1 DEF FileOK
  <2>14. SuccessIsUsable'
    <3>1. PgbrGood(c) => PgbrWorks' BY <1>1, <2>11 DEF PgbrGood, PgbrWorks, Works, stores
    <3>2. ResticGood(c) => ResticWorks' BY <1>1, <2>11 DEF ResticGood, ResticWorks, Works, stores
    <3> QED BY <2>2, <2>12, <3>1, <3>2 DEF SuccessIsUsable, Promised
  <2> QED BY <2>5, <2>6, <2>7, <2>8, <2>13, <2>14 DEF KeysInv
<1>11. CASE task.todo # {f}
  <2>1. task' = [task EXCEPT !.todo = @ \ {f}] /\ UNCHANGED <<result, torn>> BY <1>2, <1>11
  <2>2. /\ task' \in TaskRecords /\ task'.pc = "write" /\ task'.kind = task.kind /\ task'.print = task.print
        /\ task'.order = task.order /\ task'.new = task.new /\ task'.todo = task.todo \ {f}
    BY <1>1, <1>3, <2>1 DEF TaskRecords
  <2>3. KeysType' BY <1>1, <1>4, <1>9, <2>1, <2>2 DEF KeysInv, KeysType
  <2>4. BootsOK' BY <1>1, <1>9, <2>1, <2>2 DEF KeysInv, BootsOK, Bootstrapping
  <2>5. RepoOK'
    <3>1. task.kind = "restic" => Unmade' BY <1>1 DEF KeysInv, RepoOK, Unmade, stores
    <3> QED BY <1>8, <2>2, <3>1 DEF RepoOK
  <2>6. InPlan /\ (task.order = GarageFields => task.kind = "garage") /\ ~task.print
    BY <1>1 DEF KeysInv, PlanOK, Filling
  <2>7. InPlan' BY <2>2, <2>6 DEF InPlan
  <2>8. PlanOK' BY <1>5, <2>2, <2>6, <2>7 DEF PlanOK
  <2>9. ~Untouched'
    <3>1. task'.order # <<>> => task'.todo # Range(task'.order)
      <4>1. SUFFICES ASSUME task.order # <<>> PROVE task.todo \ {f} # Range(task.order) BY <2>2
      <4>2. task.todo \subseteq Range(task.order) /\ f \in task.todo BY <2>6, <4>1 DEF InPlan
      <4> QED BY <4>2
    <3>2. task'.order = <<>> => task'.todo \notin {Range(PgbrFields), Range(ResticFields)}
      <4>1. SUFFICES ASSUME task.order = <<>>
                     PROVE task.todo \ {f} \notin {Range(PgbrFields), Range(ResticFields)}
        BY <2>2
      <4>2. \/ task.todo \subseteq Range(PgbrFields)
            \/ task.todo \subseteq Range(ResticFields)
        BY <2>6, <4>1 DEF InPlan
      <4>3. \A x : x \in Range(PgbrFields) => x \notin Range(ResticFields) BY FieldSets
      <4>4. "place" \in Range(PgbrFields) /\ "repo" \in Range(ResticFields) BY FieldSets
      <4> QED BY <4>2, <4>3, <4>4
    <3> QED BY <3>1, <3>2 DEF Untouched
  <2>10. FileOK' BY <2>2, <2>9 DEF FileOK
  <2>11. NewOK'
    <3>1. /\ Whole(task.new) => Whole(task.new)'
          /\ PgbrGood(task.new) => PgbrGood(task.new)'
          /\ ResticGood(task.new) => ResticGood(task.new)'
      BY <1>1, <2>2 DEF Whole, PgbrEmpty, ResticEmpty, PgbrGood, ResticGood, Works, stores
    <3> QED BY <1>1, <2>1, <2>2, <3>1 DEF KeysInv, NewOK, Filling
  <2>12. WayOK' BY <2>2, <2>6 DEF WayOK, Bootstrapping
  <2>13. SuccessIsUsable' BY <1>1, <2>1 DEF SuccessIsUsable, Promised, KeysInv, BootsOK
  <2> QED BY <2>3, <2>4, <2>5, <2>8, <2>10, <2>11, <2>12, <2>13 DEF KeysInv
<1> QED BY <1>10, <1>11

----------------------------------------------------------------------------
(* The theorems.                                                           *)

LEMMA KeysInitInv == KeysInit => KeysInv
<1> SUFFICES ASSUME KeysInit PROVE KeysInv OBVIOUS
<1>1. /\ creds = Empty /\ read \in ReadModes /\ bucket = {} /\ role = FALSE /\ boots = 0 /\ left = 0 /\ unheard = 0
      /\ repo = [s \in Stores |-> 0] /\ cli = 0 /\ torn = FALSE
      /\ task = NoTask /\ result = NoResult /\ tasks = 0
      /\ key \in [Keys -> KeyRecords]
  <2>1. NoKey \in KeyRecords /\ [NoKey EXCEPT !.at = "garage"] \in KeyRecords
    BY DEF NoKey, KeyRecords, Places, Stores
  <2> QED BY <2>1 DEF KeysInit
<1>2. 0 \in Passwords /\ tasks \in 0..MaxTasks BY <1>1, KeysAssumption DEF Passwords
<1>3. read \in BOOLEAN BY <1>1, KeysAssumption
<1>4. task \in TaskRecords /\ task.new = Empty BY <1>1, NoTaskIsTask DEF NoTask
<1>5. creds \in Files BY <1>1, <1>4 DEF TaskRecords
<1>6. result \in Results /\ ~result.ok BY <1>1 DEF NoResult, Results, TaskKinds
<1>7. StoresType BY <1>1, <1>2 DEF StoresType, AKey
<1>8. KeysType BY <1>1, <1>2, <1>3, <1>4, <1>5, <1>6, <1>7 DEF KeysType
<1>9. task.pc = "idle" /\ task.kind = "garage" /\ ~task.print BY <1>1 DEF NoTask
<1>10. BootsOK BY <1>1, <1>9 DEF BootsOK, Bootstrapping
<1>11. RepoOK BY <1>1, <1>9 DEF RepoOK, Unmade, Filling
<1>12. PlanOK /\ NewOK /\ WayOK BY <1>9 DEF PlanOK, NewOK, WayOK, Filling, Bootstrapping
<1>13. FileOK BY <1>1 DEF FileOK, Whole, PgbrEmpty, ResticEmpty, Empty
<1>14. SuccessIsUsable BY <1>6 DEF SuccessIsUsable, Promised
<1> QED BY <1>8, <1>10, <1>11, <1>12, <1>13, <1>14 DEF KeysInv

LEMMA KeysNextInv == KeysInv /\ [KeysNext]_keysVars => KeysInv'
<1> SUFFICES ASSUME KeysInv, [KeysNext]_keysVars PROVE KeysInv' OBVIOUS
<1>1. CASE UNCHANGED keysVars
  BY <1>1 DEF keysVars, KeysInv, KeysType, StoresType, BootsOK, RepoOK, Unmade, PlanOK, InPlan,
    Untouched,
              FileOK, NewOK, Whole, PgbrEmpty, ResticEmpty, PgbrGood, ResticGood, Works, WayOK, PgbrOk,
              ResticConflict, SomeRestic, SuccessIsUsable, Promised, PgbrWorks, ResticWorks
<1>2. CASE \E k \in TaskKinds, f \in BOOLEAN, p \in BOOLEAN : BeginTask(k, f, p)
  BY <1>2, BeginTaskKeeps
<1>3. CASE \E k \in Keys : DeleteStray(k) BY <1>3, DeleteStrayKeeps
<1>4. CASE TaskStops \/ Killed BY <1>4, TaskStopsKeeps, KilledKeeps
<1>5. CASE SpacesSkipped \/ SpacesRefused \/ SpacesAgreed
  BY <1>5, SpacesSkippedKeeps, RefusedKeeps, SpacesAgreedKeeps
<1>6. CASE Bootstrap \/ EnsureBucket \/ AssignBucket \/ DeleteBootstrap \/ CreateSpacesKey
  BY <1>6, BootstrapKeeps, EnsureBucketKeeps, AssignBucketKeeps, DeleteBootstrapKeeps,
    CreateSpacesKeyKeeps
<1>7. CASE GarageSkipped \/ GarageRefused \/ ReusePgbr \/ ReuseRestic \/ NeedGarage
  BY <1>7, GarageSkippedKeeps, RefusedKeeps, ReusePgbrKeeps, ReuseResticKeeps, NeedGarageKeeps
<1>8. CASE EnsureLayout \/ EnsureGarageBucket \/ EnsureGarageKey \/ AllowKey
  BY <1>8, EnsureLayoutKeeps, EnsureGarageBucketKeeps, EnsureGarageKeyKeeps, AllowKeyKeeps
<1>9. CASE InstallCli \/ Confirm \/ SetField \/ InitRepository
  BY <1>9, InstallCliKeeps, ConfirmKeeps, SetFieldKeeps, InitRepositoryKeeps
<1> QED BY <1>1, <1>2, <1>3, <1>4, <1>5, <1>6, <1>7, <1>8, <1>9 DEF KeysNext

LEMMA KeysAlways == KeysSpec => []KeysInv
BY KeysInitInv, KeysNextInv, PTL DEF KeysSpec

(* The types of BackupKeys, with no more bootstrap keys than commands.     *)
THEOREM KeysTypeCorrect == KeysSpec => []KeysTypeOK
<1>1. KeysInv => KeysTypeOK
  <2> SUFFICES ASSUME KeysInv PROVE KeysTypeOK OBVIOUS
  <2>1. KeysType /\ BootsOK /\ tasks \in Nat /\ MaxTasks \in Nat /\ tasks <= MaxTasks
    BY KeysAssumption DEF KeysInv, KeysType
  <2>2. boots \in 0..MaxTasks /\ left \in 0..MaxTasks /\ unheard \in 0..MaxTasks BY <2>1 DEF KeysType, BootsOK, Bootstrapping
  <2>3. /\ task.kind \in TaskKinds /\ task.pc \in TaskSteps /\ task.at \in AKey /\ task.new \in Files
        /\ task.todo \subseteq Fields
        /\ task.order \in {<<>>, PgbrFields, ResticFields, GarageFields}
    BY <2>1 DEF KeysType, TaskRecords
  <2>4. Range(<<>>) = {} BY DEF Range
  <2>5. Range(task.order) \subseteq Fields BY <2>3, <2>4, FieldSets
  <2> QED BY <2>1, <2>2, <2>3, <2>5 DEF KeysType, StoresType, KeyRecords, Results, KeysTypeOK
<1> QED BY <1>1, KeysAlways, PTL

(* A provisioning command that returns 0 leaves the halves it is about     *)
(* usable, unless a command before it stopped between two sets             *)
(* (ensure_spaces_backup_credentials, cmd_dc_backup_provision).            *)
THEOREM SuccessAlwaysUsable == KeysSpec => []SuccessIsUsable
<1>1. KeysInv => SuccessIsUsable BY DEF KeysInv
<1> QED BY <1>1, KeysAlways, PTL

(* The password in the file is the one that restic's repository was made   *)
(* with, also after writes that break off (build_credential_values keeps   *)
(* the password it finds).                                                 *)
THEOREM ResticAlwaysReadable == KeysSpec => []ResticStaysReadable
<1>1. KeysInv => ResticStaysReadable
  <2> SUFFICES ASSUME KeysInv, ResticOk, repo[creds.repo] # 0 PROVE creds.pw = repo[creds.repo]
    BY DEF ResticStaysReadable
  <2>1. creds.repo \in Stores BY DEF ResticOk, KeysInv, KeysType, Files, Places
  <2> QED BY <2>1 DEF KeysInv, RepoOK
<1> QED BY <1>1, KeysAlways, PTL

(* Between two commands there is no bootstrap key but those that a warning *)
(* or a kill accounts for (_ensure_bucket's finally) and those whose       *)
(* create was not answered, which that `finally` does not cover.           *)
THEOREM NoBootstrapKeyEverLeft == KeysSpec => []NoBootstrapKeyLeft
<1>1. KeysInv => NoBootstrapKeyLeft BY DEF KeysInv, BootsOK, Bootstrapping, NoBootstrapKeyLeft
<1> QED BY <1>1, KeysAlways, PTL

----------------------------------------------------------------------------
(* Images.  The inductive invariant, in parts: the types; the plan of each *)
(* command; that pushes of one name see each other, and what one that saw  *)
(* none has pushed; and that the plans of cleanings hold, or are known to  *)
(* be stale.                                                               *)

Deletes == {<<"image", r, b>> : r \in Roles, b \in Nat \ {0}} \cup {<<"boms", r, 0>> : r \in Roles}
Todos == {<<"build", c>> : c \in Commits} \cup {<<"push", r>> : r \in Roles} \cup {<<"list">>} \cup Deletes
Doings ==
    [kind : {"none", "push", "clean"}, name : Names \cup {"none"}, build : Nat,
     todo : Seq(Todos), spared : SUBSET Names, raced : BOOLEAN]
ToPush == {<<<<"push", "web">>, <<"push", "proxy">>, <<"push", "db">>>>,
           <<<<"push", "proxy">>, <<"push", "db">>>>, <<<<"push", "db">>>>}

RegistryType ==
    /\ builds \in Seq(Commits) /\ begun \in Nat
    /\ image \in [Roles -> [Names -> Nat]]
    /\ kept \in [Roles -> SUBSET (Nat \ {0})] /\ \A r \in Roles : IsFiniteSet(kept[r])
    /\ pin \in [name : Names, hidden : BOOLEAN, trees : [Users -> Names]] /\ settled \in SUBSET Names

(* What a command has before it.                                           *)
Planned(c) ==
    /\ c.kind = "none" => c.todo = <<>>
    /\ c.kind = "push" =>
         /\ c.name \in Names
         /\ \/ c.build = 0 /\ \E m \in Commits : c.todo = PushPlan(m)
            \/ c.build > 0 /\ c.todo \in ToPush
    /\ c.kind = "clean" => c.todo = <<<<"list">>>> \/ (c.todo # <<>> /\ ToSet(c.todo) \subseteq Deletes)
PlansType == doing \in [Users -> Doings] /\ \A u \in Users : Planned(doing[u])

(* What a push that nothing raced has pushed is what it built.             *)
PushedIs(c, im, done) ==
    c.kind = "push" =>
        /\ c.name \notin done
        /\ ~c.raced =>
             \A r \in Roles : <<"push", r>> \notin ToSet(c.todo) => im[r][c.name] \in {0, c.build}
PushesOK ==
    /\ \A u \in Users : PushedIs(doing[u], image, settled)
    /\ \A u, v \in Users :
         u # v /\ doing[u].kind = "push" /\ doing[v].kind = "push" /\ doing[u].name = doing[v].name =>
             doing[u].raced

(* A plan to delete that nothing raced still holds: of its images none has *)
(* a name that the cleaning spares, and for each that has a name enough    *)
(* newer ones with a name are there.                                       *)
NamesIn(im, r, b) == {n \in Names : im[r][n] = b}
Newer(im, ke, r, b) == {d \in ke[r] : d > b /\ NamesIn(im, r, d) # {}}
EnoughNewer(im, ke, r, b) == NamesIn(im, r, b) # {} => Cardinality(Newer(im, ke, r, b)) >= Keep
PlanHolds(c, im, ke, p) ==
    c.kind = "clean" /\ ~c.raced =>
        /\ ~p.hidden => c.name \in c.spared
        /\ Patterns \subseteq c.spared
        /\ \A r \in Roles, b \in Nat \ {0} : <<"image", r, b>> \in ToSet(c.todo) =>
             NamesIn(im, r, b) \cap c.spared = {} /\ EnoughNewer(im, ke, r, b)
Crossed == \E x \in Users : doing[x].kind = "push" \/ (doing[x].kind = "clean" /\ doing[x].raced)
CleansOK ==
    /\ Crossed => \A u \in Users : doing[u].kind = "clean" => doing[u].raced
    /\ \A u \in Users : PlanHolds(doing[u], image, kept, pin)

ImagesInv == RegistryType /\ PlansType /\ PushesOK /\ SettledIsOneBuild /\ CleansOK

----------------------------------------------------------------------------
(* Sequences: the rest of one, a set as one, three joined.                 *)

LEMMA RestOfSeq ==
  ASSUME NEW S, NEW s \in Seq(S), s # <<>>
  PROVE  /\ s[1] \in S /\ Tail(s) \in Seq(S)
         /\ ToSet(Tail(s)) \subseteq ToSet(s)
         /\ Len(s) > 1 <=> Tail(s) # <<>>
         /\ s[1] \in ToSet(s)
<1>1. /\ Len(s) \in Nat \ {0} /\ DOMAIN s = 1..Len(s) /\ s \in [1..Len(s) -> S]
  BY EmptySeq, LenProperties
<1>2. /\ Tail(s) \in Seq(S) /\ Len(Tail(s)) = Len(s) - 1
      /\ \A i \in 1..Len(Tail(s)) : Tail(s)[i] = s[i + 1]
  BY HeadTailProperties
<1>3. DOMAIN Tail(s) = 1..Len(Tail(s)) BY <1>2, LenProperties
<1>4. ToSet(Tail(s)) \subseteq ToSet(s)
  <2> SUFFICES ASSUME NEW i \in DOMAIN Tail(s) PROVE Tail(s)[i] \in ToSet(s) BY DEF ToSet
  <2>1. Tail(s)[i] = s[i + 1] /\ i + 1 \in DOMAIN s BY <1>1, <1>2, <1>3
  <2> QED BY <2>1 DEF ToSet
<1>5. s[1] \in S /\ s[1] \in ToSet(s) BY <1>1 DEF ToSet
<1>6. Len(s) > 1 <=> Tail(s) # <<>>
  <2>1. Tail(s) = <<>> => Len(Tail(s)) = 0 BY EmptySeq
  <2>2. Tail(s) # <<>> => Len(Tail(s)) \in Nat \ {0} BY <1>2, EmptySeq
  <2> QED BY <1>1, <1>2, <2>1, <2>2
<1> QED BY <1>2, <1>4, <1>5, <1>6

LEMMA SetIsSeq == ASSUME NEW S, IsFiniteSet(S) PROVE SetToSeq(S) \in Seq(S)
<1> DEFINE n == Cardinality(S)
<1>1. n \in Nat /\ ExistsBijection(1..n, S) BY FS_CardinalityType
<1>2. \E f \in [1..n -> S] : IsInjective(f) BY <1>1 DEF ExistsBijection, Bijection, Injection
<1>3. SetToSeq(S) \in [1..n -> S] BY <1>2 DEF SetToSeq
<1> HIDE DEF n
<1> QED BY <1>1, <1>3

LEMMA SeqOfThree == ASSUME NEW T, NEW s \in [1..3 -> T] PROVE s \in Seq(T) /\ Len(s) = 3
<1>1. s[1] \in T /\ s[2] \in T /\ s[3] \in T OBVIOUS
<1>2. <<s[1], s[2], s[3]>> \in Seq(T) /\ Len(<<s[1], s[2], s[3]>>) = 3 BY <1>1
<1>3. s = <<s[1], s[2], s[3]>> OBVIOUS
<1> QED BY <1>2, <1>3

LEMMA ThreeJoined ==
  ASSUME NEW S, NEW s \in [1..3 -> Seq(S)] PROVE FlattenSeq(s) \in Seq(S)
<1> DEFINE R(f) == [i \in 1..3 |-> IF i = 1 THEN s[i] ELSE f[i - 1] \o s[i]]
           h == CHOOSE f : f = R(f)
           one == s[1]
           two == one \o s[2]
           g == [i \in 1..3 |-> IF i = 1 THEN one ELSE IF i = 2 THEN two ELSE two \o s[3]]
<1>1. s \in Seq(Seq(S)) /\ Len(s) = 3 BY SeqOfThree
<1>2. FlattenSeq(s) = h[3] BY <1>1 DEF FlattenSeq
<1>3. g = R(g)
  <2>1. g[1] = one /\ g[2] = two BY DEF g
  <2>2. \A i \in 1..3 : g[i] = IF i = 1 THEN s[i] ELSE g[i - 1] \o s[i]
    <3> TAKE i \in 1..3
    <3>1. CASE i = 1 BY <3>1
    <3>2. CASE i = 2
      <4>1. g[i - 1] = one BY <2>1, <3>2
      <4> QED BY <3>2, <4>1
    <3>3. CASE i = 3
      <4>1. g[i - 1] = two BY <2>1, <3>3
      <4> QED BY <3>3, <4>1
    <3> QED BY <3>1, <3>2, <3>3
  <2> QED BY <2>2
<1>4. h = R(h) BY <1>3
<1>5. s[1] \in Seq(S) /\ s[2] \in Seq(S) /\ s[3] \in Seq(S) OBVIOUS
<1> HIDE DEF h, g, one, two
<1>6. h[1] = s[1] /\ h[2] = h[1] \o s[2] /\ h[3] = h[2] \o s[3]
  <2>1. R(h)[1] = s[1] OBVIOUS
  <2>2. R(h)[2] = h[1] \o s[2] OBVIOUS
  <2>3. R(h)[3] = h[2] \o s[3] OBVIOUS
  <2> HIDE DEF R
  <2> QED BY <1>4, <2>1, <2>2, <2>3
<1>7. h[2] \in Seq(S) BY <1>5, <1>6, ConcatProperties
<1>8. h[3] \in Seq(S) BY <1>5, <1>6, <1>7, ConcatProperties
<1> QED BY <1>2, <1>8

----------------------------------------------------------------------------
(* What plan_deletions lists: of the kept ones, those with no name and     *)
(* those beyond the newest.                                                *)

Doomed(r, spared) == BeyondKept(r, spared) \cup Untagged(r)
StagedItems(spared) == {x \in Deletes : x[1] = "image" => x[3] \in Doomed(x[2], spared)}

LEMMA DoomedIsKept ==
  ASSUME RegistryType, NEW r \in Roles, NEW spared
  PROVE  /\ Doomed(r, spared) \subseteq kept[r] /\ Doomed(r, spared) \subseteq Nat \ {0}
         /\ \A T \in SUBSET kept[r] : IsFiniteSet(T)
<1>1. kept[r] \subseteq Nat \ {0} /\ IsFiniteSet(kept[r]) BY DEF RegistryType
<1>2. Doomed(r, spared) \subseteq kept[r] BY DEF Doomed, BeyondKept, OldTagged, Untagged
<1> QED BY <1>1, <1>2, FS_Subset

LEMMA StagedAsIs ==
  ASSUME NEW kind, NEW r, NEW which, IsFiniteSet(which)
  PROVE  StagedAs(kind, r, which) \in Seq({<<kind, r, b>> : b \in which})
<1> DEFINE T == {<<kind, r, b>> : b \in which}
           f == [b \in which |-> <<kind, r, b>>]
<1>1. f \in Surjection(which, T) BY DEF Surjection
<1>2. IsFiniteSet(T) BY <1>1, FS_Surjection
<1> QED BY <1>2, SetIsSeq DEF StagedAs

LEMMA StagedIs == ASSUME RegistryType, NEW spared PROVE Staged(spared) \in Seq(StagedItems(spared))
<1> DEFINE S == StagedItems(spared)
           package(i) == <<"db", "proxy", "web">>[i]
           which(r) == BeyondKept(r, spared) \cup (IF WithUntagged THEN Untagged(r) ELSE {})
           more(r) == IF WithUntagged /\ boms[r] # {} THEN <<<<"boms", r, 0>>>> ELSE <<>>
           part(i) == StagedAs("image", package(i), which(package(i))) \o more(package(i))
<1>1. ASSUME NEW r \in Roles PROVE StagedAs("image", r, which(r)) \in Seq(S)
  <2> DEFINE W == which(r)
  <2>1. W \subseteq Doomed(r, spared) BY DEF Doomed
  <2>2. IsFiniteSet(W) /\ W \subseteq Nat \ {0} BY <2>1, DoomedIsKept
  <2> HIDE DEF W
  <2>3. StagedAs("image", r, W) \in Seq({<<"image", r, b>> : b \in W}) BY <2>2, StagedAsIs
  <2>4. {<<"image", r, b>> : b \in W} \subseteq S BY <2>1, <2>2 DEF StagedItems, Deletes
  <2>5. StagedAs("image", r, W) \in Seq(S) BY <2>3, <2>4, SeqMonotonic
  <2> QED BY <2>5 DEF W
<1>2. ASSUME NEW r \in Roles PROVE more(r) \in Seq(S)
  <2>1. <<"boms", r, 0>> \in S BY DEF StagedItems, Deletes
  <2> QED BY <2>1
<1>3. \A i \in 1..3 : package(i) \in Roles BY DEF Roles
<1>4. \A r \in Roles : StagedAs("image", r, which(r)) \o more(r) \in Seq(S)
  <2> HIDE DEF which, more, S
  <2> QED BY <1>1, <1>2, ConcatProperties
<1>5. [i \in 1..3 |-> part(i)] \in [1..3 -> Seq(S)]
  <2> HIDE DEF which, more, S, package
  <2> QED BY <1>3, <1>4
<1>6. Staged(spared) = FlattenSeq([i \in 1..3 |-> part(i)])
  <2> HIDE DEF S
  <2> QED BY DEF Staged
<1> HIDE DEF part, S
<1>7. FlattenSeq([i \in 1..3 |-> part(i)]) \in Seq(S) BY <1>5, ThreeJoined
<1> QED BY <1>6, <1>7 DEF S

----------------------------------------------------------------------------
(* A deletion that leaves enough newer ones leaves every plan as it is.    *)

IsDeletion(im, im2, ke, ke2, r0, b0) ==
    /\ im \in [Roles -> [Names -> Nat]] /\ im2 \in [Roles -> [Names -> Nat]]
    /\ ke \in [Roles -> SUBSET (Nat \ {0})] /\ ke2 \in [Roles -> SUBSET (Nat \ {0})]
    /\ \A r \in Roles : IsFiniteSet(ke[r])
    /\ \A r \in Roles, n \in Names : im2[r][n] = IF r = r0 /\ im[r][n] = b0 THEN 0 ELSE im[r][n]
    /\ \A r \in Roles : ke2[r] = IF r = r0 THEN ke[r] \ {b0} ELSE ke[r]

LEMMA DeletionKeepsPlan ==
  ASSUME NEW im, NEW im2, NEW ke, NEW ke2, NEW r0 \in Roles, NEW b0 \in Nat \ {0},
         IsDeletion(im, im2, ke, ke2, r0, b0), EnoughNewer(im, ke, r0, b0),
         NEW p, NEW c, PlanHolds(c, im, ke, p)
  PROVE  PlanHolds(c, im2, ke2, p)
<1> USE DEF IsDeletion
<1>1. ASSUME NEW r \in Roles, NEW b \in Nat \ {0}
      PROVE  NamesIn(im2, r, b) = IF r = r0 /\ b = b0 THEN {} ELSE NamesIn(im, r, b)
  BY DEF NamesIn
<1>2. ASSUME NEW r \in Roles, NEW b \in Nat \ {0}, EnoughNewer(im, ke, r, b)
      PROVE  EnoughNewer(im2, ke2, r, b)
  <2> SUFFICES ASSUME NamesIn(im2, r, b) # {} PROVE Cardinality(Newer(im2, ke2, r, b)) >= Keep
    BY DEF EnoughNewer
  <2>1. NamesIn(im, r, b) # {} /\ ~(r = r0 /\ b = b0) BY <1>1
  <2>2. Cardinality(Newer(im, ke, r, b)) >= Keep BY <1>2, <2>1 DEF EnoughNewer
  <2>3. CASE r # r0 \/ b0 < b \/ NamesIn(im, r0, b0) = {}
    <3>1. Newer(im2, ke2, r, b) = Newer(im, ke, r, b)
      <4>1. \A d \in ke[r] : d \in ke2[r] \/ (r = r0 /\ d = b0) OBVIOUS
      <4>2. \A d \in Nat \ {0} : NamesIn(im2, r, d) # {} => NamesIn(im, r, d) # {} BY <1>1
      <4>3. \A d \in ke[r] : d > b /\ NamesIn(im, r, d) # {} => d \in ke2[r] /\ NamesIn(im2, r, d) # {}
        BY <1>1, <2>3, <4>1
      <4>4. ke2[r] \subseteq ke[r] /\ ke[r] \subseteq Nat \ {0} OBVIOUS
      <4> QED BY <4>2, <4>3, <4>4 DEF Newer
    <3> QED BY <2>2, <3>1
  <2>4. CASE r = r0 /\ b < b0 /\ NamesIn(im, r0, b0) # {}
    <3> DEFINE S == Newer(im2, ke2, r, b)
               T == Newer(im, ke, r0, b0)
    <3>1. T \subseteq S
      <4> SUFFICES ASSUME NEW d \in T PROVE d \in S OBVIOUS
      <4>1. d \in ke[r] /\ d > b0 /\ NamesIn(im, r, d) # {} BY <2>4 DEF Newer
      <4>2. d \in Nat \ {0} /\ d # b0 /\ d > b BY <2>4, <4>1
      <4>3. d \in ke2[r] /\ NamesIn(im2, r, d) # {} BY <1>1, <4>1, <4>2
      <4> QED BY <4>2, <4>3 DEF Newer
    <3>2. IsFiniteSet(S)
      <4>1. S \subseteq ke[r] BY DEF Newer
      <4> QED BY <4>1, FS_Subset
    <3>3. Cardinality(T) >= Keep BY <2>4 DEF EnoughNewer
    <3> HIDE DEF S, T
    <3>4. IsFiniteSet(T) /\ Cardinality(T) <= Cardinality(S) BY <3>1, <3>2, FS_Subset
    <3>5. Cardinality(T) \in Nat /\ Cardinality(S) \in Nat BY <3>2, <3>4, FS_CardinalityType
    <3>6. Cardinality(S) >= Keep BY <3>3, <3>4, <3>5, ImagesAssumption
    <3> QED BY <3>6 DEF S
  <2> QED BY <2>1, <2>3, <2>4
<1> QED BY <1>1, <1>2 DEF PlanHolds

----------------------------------------------------------------------------
(* Steps of one command.                                                   *)

LEMMA NothingIs == Nothing \in Doings /\ Planned(Nothing) /\ Nothing.kind = "none"
BY DEF Nothing, Doings, Planned

LEMMA PlanOfPush ==
  /\ \A m \in Commits :
       /\ PushPlan(m) \in Seq(Todos) /\ Tail(PushPlan(m)) \in ToPush /\ PushPlan(m)[1] = <<"build", m>>
       /\ \A r \in Roles : <<"push", r>> \in ToSet(PushPlan(m))
  /\ \A s \in ToPush :
       /\ s \in Seq(Todos) /\ s # <<>> /\ (Len(s) > 1 => Tail(s) \in ToPush)
       /\ s[1] \in {<<"push", r>> : r \in Roles}
       /\ \A r \in Roles : <<"push", r>> \in ToSet(s) => <<"push", r>> = s[1] \/ <<"push", r>> \in ToSet(Tail(s))
       /\ ~(Len(s) > 1) => \A r \in Roles : <<"push", r>> \in ToSet(s) => <<"push", r>> = s[1]
  /\ \A r \in Roles : <<"push", r>> \in ToSet(<<<<"push", "web">>, <<"push", "proxy">>, <<"push", "db">>>>)
<1> DEFINE three == <<<<"push", "web">>, <<"push", "proxy">>, <<"push", "db">>>>
           two == <<<<"push", "proxy">>, <<"push", "db">>>>
           one == <<<<"push", "db">>>>
<1>1. \A r \in Roles : <<"push", r>> \in Todos BY DEF Todos
<1>2. \A m \in Commits : <<"build", m>> \in Todos BY DEF Todos
<1>3. <<"push", "web">> \in Todos /\ <<"push", "proxy">> \in Todos /\ <<"push", "db">> \in Todos
  BY <1>1 DEF Roles
<1>4. /\ three \in Seq(Todos) /\ two \in Seq(Todos) /\ one \in Seq(Todos)
      /\ Len(three) = 3 /\ Len(two) = 2 /\ Len(one) = 1
      /\ Tail(three) = two /\ Tail(two) = one
      /\ three[1] = <<"push", "web">> /\ two[1] = <<"push", "proxy">> /\ one[1] = <<"push", "db">>
      /\ three # <<>> /\ two # <<>> /\ one # <<>>
  BY <1>3
<1>5. \A r \in Roles : <<"push", r>> \in ToSet(three)
  <2>1. DOMAIN three = 1..3 /\ three[1] = <<"push", "web">> /\ three[2] = <<"push", "proxy">> /\ three[3] = <<"push", "db">>
    OBVIOUS
  <2> HIDE DEF three
  <2> QED BY <2>1 DEF Roles, ToSet
<1>6. ASSUME NEW m \in Commits
      PROVE  /\ PushPlan(m) \in Seq(Todos) /\ Tail(PushPlan(m)) = three /\ PushPlan(m)[1] = <<"build", m>>
             /\ PushPlan(m) # <<>>
  <2>1. PushPlan(m) = <<<<"build", m>>, <<"push", "web">>, <<"push", "proxy">>, <<"push", "db">>>> BY DEF PushPlan
  <2> QED BY <1>2, <1>3, <2>1
<1>7. ToPush = {three, two, one} BY DEF ToPush
<1>8. ASSUME NEW s \in ToPush
      PROVE  s \in Seq(Todos) /\ s # <<>> /\ (Len(s) > 1 => Tail(s) \in ToPush)
             /\ s[1] \in {<<"push", r>> : r \in Roles}
  <2>1. "web" \in Roles /\ "proxy" \in Roles /\ "db" \in Roles BY DEF Roles
  <2> HIDE DEF three, two, one
  <2>2. s \in Seq(Todos) /\ s # <<>> /\ s[1] \in {<<"push", r>> : r \in Roles} BY <1>4, <1>7, <2>1
  <2>3. Len(s) > 1 => Tail(s) \in ToPush BY <1>4, <1>7
  <2> QED BY <2>2, <2>3
<1>9. ASSUME NEW s \in Seq(Todos), s # <<>>, NEW x \in ToSet(s)
      PROVE  (x = s[1] \/ x \in ToSet(Tail(s))) /\ (~(Len(s) > 1) => x = s[1])
  <2>1. DOMAIN s = 1..Len(s) /\ Len(s) \in Nat \ {0} BY <1>9, LenProperties, EmptySeq
  <2>2. PICK i \in 1..Len(s) : x = s[i] BY <2>1 DEF ToSet
  <2>3. Tail(s) \in Seq(Todos) /\ Len(Tail(s)) = Len(s) - 1 /\ \A j \in 1..Len(Tail(s)) : Tail(s)[j] = s[j + 1]
    BY <1>9, HeadTailProperties
  <2>4. CASE i # 1
    <3>1. i - 1 \in 1..Len(Tail(s)) /\ Tail(s)[i - 1] = s[i] BY <2>1, <2>3, <2>4
    <3>2. DOMAIN Tail(s) = 1..Len(Tail(s)) BY <2>3, LenProperties
    <3>3. Tail(s)[i - 1] \in ToSet(Tail(s)) BY <3>1, <3>2 DEF ToSet
    <3>4. Len(s) > 1 BY <2>1, <2>4
    <3> QED BY <2>2, <3>1, <3>3, <3>4
  <2> QED BY <2>2, <2>4
<1>10. \A m \in Commits, r \in Roles : <<"push", r>> \in ToSet(PushPlan(m))
  <2> TAKE m \in Commits, r \in Roles
  <2>1. ToSet(Tail(PushPlan(m))) \subseteq ToSet(PushPlan(m)) BY <1>6, RestOfSeq
  <2> HIDE DEF three
  <2> QED BY <1>5, <1>6, <2>1
<1> HIDE DEF three, two, one
<1>11. \A m \in Commits : Tail(PushPlan(m)) \in ToPush BY <1>6, <1>7
<1>12. \A s \in ToPush, r \in Roles : <<"push", r>> \in ToSet(s) =>
         /\ <<"push", r>> = s[1] \/ <<"push", r>> \in ToSet(Tail(s))
         /\ ~(Len(s) > 1) => <<"push", r>> = s[1]
  BY <1>8, <1>9
<1> QED BY <1>5, <1>6, <1>8, <1>10, <1>11, <1>12 DEF three

LEMMA OneMoves ==
  ASSUME PlansType, NEW u \in Users, NEW e \in Doings, Planned(e), doing' = [doing EXCEPT ![u] = e]
  PROVE  PlansType' /\ doing'[u] = e /\ \A v \in Users : v # u => doing'[v] = doing[v]
<1>1. doing \in [Users -> Doings] BY DEF PlansType
<1>2. doing' \in [Users -> Doings] /\ doing'[u] = e /\ \A v \in Users : v # u => doing'[v] = doing[v] BY <1>1
<1>3. \A v \in Users : Planned(doing[v]) BY DEF PlansType
<1>4. \A v \in Users : Planned(doing'[v]) BY <1>2, <1>3
<1> QED BY <1>2, <1>4 DEF PlansType, Planned

LEMMA GoesIs ==
  ASSUME PlansType, NEW u \in Users, Goes(u),
         \/ doing[u].kind = "push" /\ doing[u].todo \in ToPush
         \/ doing[u].kind = "clean" /\ doing[u].todo # <<>> /\ ToSet(doing[u].todo) \subseteq Deletes
  PROVE  \E e \in Doings :
           /\ doing' = [doing EXCEPT ![u] = e] /\ Planned(e)
           /\ \/ e = Nothing /\ ~(Len(doing[u].todo) > 1)
              \/ /\ Len(doing[u].todo) > 1 /\ e.todo = Tail(doing[u].todo)
                 /\ e.kind = doing[u].kind /\ e.name = doing[u].name /\ e.build = doing[u].build
                 /\ e.spared = doing[u].spared /\ (e.raced <=> doing[u].raced)
<1>1. PICK c \in Doings : c = doing[u] BY DEF PlansType
<1>2. Planned(c) BY <1>1 DEF PlansType
<1> DEFINE e == IF Len(c.todo) > 1 THEN [c EXCEPT !.todo = Tail(c.todo)] ELSE Nothing
<1>3. doing' = [doing EXCEPT ![u] = e]
  <2>1. doing' = [doing EXCEPT ![u] = IF Len(doing[u].todo) > 1
                                      THEN [doing[u] EXCEPT !.todo = Tail(doing[u].todo)] ELSE Nothing]
    BY DEF Goes
  <2> QED BY <1>1, <2>1
<1>4. CASE ~(Len(c.todo) > 1) BY <1>1, <1>3, <1>4, NothingIs
<1>5. CASE Len(c.todo) > 1
  <2>1. c.todo \in Seq(Todos) /\ c.todo # <<>> BY <1>1, NothingIs, PlanOfPush DEF Doings
  <2>2. /\ Tail(c.todo) \in Seq(Todos) /\ Tail(c.todo) # <<>>
        /\ ToSet(Tail(c.todo)) \subseteq ToSet(c.todo)
    BY <1>5, <2>1, RestOfSeq
  <2>3. e = [c EXCEPT !.todo = Tail(c.todo)] BY <1>5
  <2> HIDE DEF e
  <2>4. /\ e \in Doings /\ e.todo = Tail(c.todo) /\ e.kind = c.kind /\ e.name = c.name
        /\ e.build = c.build /\ e.spared = c.spared /\ (e.raced <=> c.raced)
    BY <2>2, <2>3 DEF Doings
  <2>5. Planned(e)
    <3>1. CASE c.kind = "push"
      <4>1. c.todo \in ToPush BY <1>1, <3>1
      <4>2. Tail(c.todo) \in ToPush BY <1>5, <4>1, PlanOfPush
      <4>3. c.build > 0
        <5>1. ASSUME NEW m \in Commits, c.todo = PushPlan(m) PROVE FALSE
          <6>1. c.todo[1] = <<"build", m>> BY <5>1, PlanOfPush
          <6>2. c.todo[1] \in {<<"push", r>> : r \in Roles} BY <4>1, PlanOfPush
          <6> QED BY <6>1, <6>2
        <5> QED BY <1>2, <3>1, <5>1 DEF Planned
      <4> QED BY <1>2, <2>4, <3>1, <4>2, <4>3 DEF Planned
    <3>2. CASE c.kind = "clean"
      <4>1. ToSet(c.todo) \subseteq Deletes BY <1>1, <3>2
      <4> QED BY <2>2, <2>4, <3>2, <4>1 DEF Planned
    <3> QED BY <1>1, <3>1, <3>2
  <2> QED BY <1>1, <1>3, <1>5, <2>4, <2>5
<1> QED BY <1>4, <1>5

(* A command ends, or a cleaning goes on, and images go.                   *)
LEMMA LessKeeps ==
  ASSUME ImagesInv, NEW u \in Users, NEW e \in Doings, Planned(e), doing' = [doing EXCEPT ![u] = e],
         e.kind = "none" \/ (e.kind = "clean" /\ doing[u].kind = "clean" /\ (e.raced <=> doing[u].raced)),
         UNCHANGED settled, RegistryType',
         \A r \in Roles, n \in Names : image'[r][n] \in {0, image[r][n]},
         \A c \in Doings : c = e \/ (\E v \in Users : c = doing[v]) => PlanHolds(c, image', kept', pin')
  PROVE  ImagesInv'
<1>1. PlansType' /\ doing'[u] = e /\ \A v \in Users : v # u => doing'[v] = doing[v]
  BY OneMoves DEF ImagesInv
<1>2. doing \in [Users -> Doings] /\ doing' \in [Users -> Doings] BY <1>1 DEF ImagesInv, PlansType
<1>3. PushesOK'
  <2>1. ASSUME NEW v \in Users PROVE PushedIs(doing'[v], image', settled')
    <3>1. CASE v = u BY <1>1, <3>1 DEF PushedIs
    <3>2. CASE v # u
      <4>1. PICK c \in Doings : c = doing[v] /\ c = doing'[v] BY <1>1, <1>2, <3>2
      <4>2. PushedIs(c, image, settled) BY <4>1 DEF ImagesInv, PushesOK
      <4>3. c.kind = "push" => c.name \in Names BY <1>1, <4>1 DEF PlansType, Planned
      <4>4. PushedIs(c, image', settled') BY <4>2, <4>3 DEF PushedIs
      <4> QED BY <4>1, <4>4
    <3> QED BY <3>1, <3>2
  <2>2. ASSUME NEW v \in Users, NEW w \in Users, v # w, doing'[v].kind = "push", doing'[w].kind = "push",
               doing'[v].name = doing'[w].name
        PROVE  doing'[v].raced
    <3>1. doing'[v] = doing[v] /\ doing'[w] = doing[w] BY <1>1, <2>2
    <3> QED BY <2>2, <3>1 DEF ImagesInv, PushesOK
  <2> QED BY <2>1, <2>2 DEF PushesOK
<1>4. SettledIsOneBuild'
  <2> SUFFICES ASSUME NEW n \in settled', NEW r \in Roles, NEW s \in Roles, image'[r][n] # 0, image'[s][n] # 0
               PROVE  image'[r][n] = image'[s][n]
    BY DEF SettledIsOneBuild
  <2>1. n \in settled /\ n \in Names BY DEF ImagesInv, RegistryType
  <2>2. image'[r][n] = image[r][n] /\ image'[s][n] = image[s][n] BY <2>1
  <2> QED BY <2>1, <2>2 DEF ImagesInv, SettledIsOneBuild
<1>5. CleansOK'
  <2>1. ASSUME Crossed', NEW v \in Users, doing'[v].kind = "clean" PROVE doing'[v].raced
    <3>1. PICK x \in Users : doing'[x].kind = "push" \/ (doing'[x].kind = "clean" /\ doing'[x].raced)
      BY <2>1 DEF Crossed
    <3>2. doing[x].kind = "push" \/ (doing[x].kind = "clean" /\ doing[x].raced) BY <1>1, <3>1
    <3>3. Crossed BY <3>2 DEF Crossed
    <3>4. doing[v].kind = "clean" BY <1>1, <2>1
    <3>5. doing[v].raced BY <3>3, <3>4 DEF ImagesInv, CleansOK
    <3> QED BY <1>1, <2>1, <3>5
  <2>2. ASSUME NEW v \in Users PROVE PlanHolds(doing'[v], image', kept', pin')
    <3>1. PICK c \in Doings : c = doing'[v] BY <1>2
    <3>2. c = e \/ c = doing[v] BY <1>1, <3>1
    <3> QED BY <3>1, <3>2
  <2> QED BY <2>1, <2>2 DEF CleansOK
<1> QED BY <1>1, <1>3, <1>4, <1>5 DEF ImagesInv

LEMMA CutShortKeeps == ASSUME ImagesInv, NEW u \in Users, CutShort(u) PROVE ImagesInv'
<1>1. doing' = [doing EXCEPT ![u] = Nothing] /\ UNCHANGED <<builds, image, kept, pin, settled, begun>>
  BY DEF CutShort, registry
<1>2. RegistryType' BY <1>1 DEF ImagesInv, RegistryType
<1>3. \A r \in Roles, n \in Names : image'[r][n] \in {0, image[r][n]} BY <1>1
<1>4. \A c \in Doings : c = Nothing \/ (\E v \in Users : c = doing[v]) => PlanHolds(c, image', kept', pin')
  <2>1. PlanHolds(Nothing, image', kept', pin') BY NothingIs DEF PlanHolds
  <2>2. \A v \in Users : PlanHolds(doing[v], image, kept, pin) BY DEF ImagesInv, CleansOK
  <2> QED BY <1>1, <2>1, <2>2
<1> QED BY <1>1, <1>2, <1>3, <1>4, NothingIs, LessKeeps

LEMMA ListKeeps == ASSUME ImagesInv, NEW u \in Users, List(u) PROVE ImagesInv'
<1>1. /\ doing' = [doing EXCEPT ![u] = IF Staged(doing[u].spared) = <<>> THEN Nothing
                                       ELSE [doing[u] EXCEPT !.todo = Staged(doing[u].spared)]]
      /\ doing[u].todo # <<>> /\ doing[u].todo[1][1] = "list"
      /\ UNCHANGED <<builds, image, kept, pin, settled, begun>>
  BY DEF List, Does, registry
<1>2. PICK c \in Doings : c = doing[u] BY DEF ImagesInv, PlansType
<1>3. Planned(c) /\ PlanHolds(c, image, kept, pin) BY <1>2 DEF ImagesInv, PlansType, CleansOK
<1>4. c.kind = "clean"
  <2>1. CASE c.kind = "push"
    <3>1. PICK x : c.todo[1] = <<"build", x>> \/ c.todo[1] = <<"push", x>>
      BY <1>3, <2>1, PlanOfPush DEF Planned
    <3> QED BY <1>1, <1>2, <3>1
  <2>2. CASE c.kind = "none" BY <1>1, <1>2, <1>3, <2>2 DEF Planned
  <2> QED BY <2>1, <2>2 DEF Doings
<1>5. PICK spared \in SUBSET Names : spared = c.spared BY DEF Doings
<1> DEFINE todo == Staged(spared)
           e == IF todo = <<>> THEN Nothing ELSE [c EXCEPT !.todo = todo]
<1>6. RegistryType BY DEF ImagesInv
<1>7. todo \in Seq(StagedItems(spared)) BY <1>6, StagedIs
<1>8. doing' = [doing EXCEPT ![u] = e] BY <1>1, <1>2, <1>5
<1> HIDE DEF todo
<1>9. ToSet(todo) \subseteq StagedItems(spared) BY <1>7, LenProperties, ElementOfSeq DEF ToSet
<1>10. todo \in Seq(Todos)
  <2>1. StagedItems(spared) \subseteq Todos BY DEF StagedItems, Todos
  <2> QED BY <1>7, <2>1, SeqMonotonic
<1>11. e = Nothing \/ (/\ e \in Doings /\ e.todo = todo /\ todo # <<>> /\ e.kind = "clean" /\ e.spared = spared
                       /\ e.name = c.name /\ (e.raced <=> c.raced))
  BY <1>4, <1>5, <1>10 DEF Doings
<1> HIDE DEF e
<1>12. e \in Doings /\ Planned(e)
  <2>1. StagedItems(spared) \subseteq Deletes BY DEF StagedItems
  <2> QED BY <1>9, <1>11, <2>1, NothingIs DEF Planned
<1>13. e.kind = "none" \/ (e.kind = "clean" /\ doing[u].kind = "clean" /\ (e.raced <=> doing[u].raced))
  BY <1>2, <1>4, <1>11, NothingIs
<1>14. RegistryType' BY <1>1, <1>6 DEF RegistryType
<1>15. PlanHolds(e, image, kept, pin)
  <2> SUFFICES ASSUME e.kind = "clean", ~e.raced
               PROVE  /\ ~pin.hidden => e.name \in e.spared
                      /\ Patterns \subseteq e.spared
                      /\ \A r \in Roles, b \in Nat \ {0} : <<"image", r, b>> \in ToSet(e.todo) =>
                           NamesIn(image, r, b) \cap e.spared = {} /\ EnoughNewer(image, kept, r, b)
    BY DEF PlanHolds
  <2>1. e # Nothing BY NothingIs
  <2>2. (~pin.hidden => e.name \in e.spared) /\ Patterns \subseteq e.spared BY <1>3, <1>4, <1>5, <1>11, <2>1 DEF PlanHolds
  <2>3. ASSUME NEW r \in Roles, NEW b \in Nat \ {0}, <<"image", r, b>> \in ToSet(e.todo)
        PROVE  NamesIn(image, r, b) \cap spared = {} /\ EnoughNewer(image, kept, r, b)
    <3>1. b \in Doomed(r, spared)
      <4>1. <<"image", r, b>> \in StagedItems(spared) BY <1>9, <1>11, <2>1, <2>3
      <4> QED BY <4>1 DEF StagedItems
    <3>2. NamesIn(image, r, b) = NamesOf(r, b) BY DEF NamesIn, NamesOf
    <3>3. CASE b \in Untagged(r) BY <3>2, <3>3 DEF Untagged, EnoughNewer
    <3>4. CASE b \in BeyondKept(r, spared)
      <4> DEFINE S == {d \in OldTagged(r, spared) : d > b}
                 T == Newer(image, kept, r, b)
      <4>1. NamesOf(r, b) \cap spared = {} BY <3>4 DEF BeyondKept, OldTagged, Excluded
      <4>2. Cardinality(S) >= Keep BY <3>4 DEF BeyondKept
      <4>3. S \subseteq T BY DEF OldTagged, Newer, NamesIn, NamesOf
      <4>4. T \in SUBSET kept[r] BY DEF Newer
      <4> HIDE DEF S, T
      <4>5. IsFiniteSet(T) BY <1>6, <4>4, DoomedIsKept
      <4>6. IsFiniteSet(S) /\ Cardinality(S) <= Cardinality(T) BY <4>3, <4>5, FS_Subset
      <4>7. Cardinality(S) \in Nat /\ Cardinality(T) \in Nat BY <4>5, <4>6, FS_CardinalityType
      <4>8. Cardinality(T) >= Keep BY <4>2, <4>6, <4>7, ImagesAssumption
      <4> QED BY <3>2, <4>1, <4>8 DEF EnoughNewer, T
    <3> QED BY <3>1, <3>3, <3>4 DEF Doomed
  <2> QED BY <1>11, <2>1, <2>2, <2>3
<1>16. \A d \in Doings : d = e \/ (\E v \in Users : d = doing[v]) => PlanHolds(d, image', kept', pin')
  <2>1. \A v \in Users : PlanHolds(doing[v], image, kept, pin) BY DEF ImagesInv, CleansOK
  <2> QED BY <1>1, <1>15, <2>1
<1>17. \A r \in Roles, n \in Names : image'[r][n] \in {0, image[r][n]} BY <1>1
<1>18. UNCHANGED settled BY <1>1
<1> QED BY <1>8, <1>12, <1>13, <1>14, <1>16, <1>17, <1>18, LessKeeps

(* A command that is about to push, and one that is about to delete.       *)
LEMMA PushingIs ==
  ASSUME ImagesInv, NEW u \in Users, Does(u, "push")
  PROVE  /\ doing[u].kind = "push" /\ doing[u].todo \in ToPush /\ doing[u].name \in Names
         /\ doing[u].build > 0 /\ doing[u].build \in Nat
         /\ Role(u) \in Roles /\ doing[u].todo[1] = <<"push", Role(u)>>
<1>1. doing[u].todo # <<>> /\ doing[u].todo[1][1] = "push" BY DEF Does
<1>2. PICK c \in Doings : c = doing[u] BY DEF ImagesInv, PlansType
<1>3. Planned(c) BY <1>2 DEF ImagesInv, PlansType
<1>4. c.kind = "push" /\ c.todo \in ToPush /\ c.name \in Names /\ c.build > 0 /\ c.build \in Nat
  <2>1. \A m \in Commits : c.todo # PushPlan(m)
    <3>1. \A m \in Commits : PushPlan(m)[1][1] = "build" BY PlanOfPush
    <3> QED BY <1>1, <1>2, <3>1
  <2>2. CASE c.kind = "clean"
    <3>1. c.todo # <<<<"list">>>>
      <4>1. <<<<"list">>>>[1][1] = "list" OBVIOUS
      <4> QED BY <1>1, <1>2, <4>1
    <3>2. ToSet(c.todo) \subseteq Deletes /\ c.todo # <<>> /\ c.todo \in Seq(Todos)
      BY <1>3, <2>2, <3>1 DEF Planned, Doings
    <3>3. c.todo[1] \in Deletes BY <3>2, RestOfSeq
    <3> QED BY <1>1, <1>2, <3>3 DEF Deletes
  <2>3. CASE c.kind = "none" BY <1>1, <1>2, <1>3, <2>3 DEF Planned
  <2> QED BY <1>3, <2>1, <2>2, <2>3 DEF Doings, Planned
<1>5. Role(u) \in Roles /\ c.todo[1] = <<"push", Role(u)>>
  <2>1. PICK r \in Roles : c.todo[1] = <<"push", r>> BY <1>4, PlanOfPush
  <2> QED BY <1>2, <2>1 DEF Role
<1> QED BY <1>2, <1>4, <1>5

LEMMA DeletingIs ==
  ASSUME ImagesInv, NEW u \in Users, Does(u, "image") \/ Does(u, "boms")
  PROVE  /\ doing[u].kind = "clean" /\ doing[u].todo # <<>> /\ doing[u].todo \in Seq(Todos)
         /\ ToSet(doing[u].todo) \subseteq Deletes
         /\ doing[u].todo[1] \in ToSet(doing[u].todo)
<1> DEFINE x == doing[u].todo[1]
<1>1. doing[u].todo # <<>> /\ x[1] \in {"image", "boms"} BY DEF Does
<1>2. PICK c \in Doings : c = doing[u] BY DEF ImagesInv, PlansType
<1>3. Planned(c) BY <1>2 DEF ImagesInv, PlansType
<1>4. c.kind = "clean" /\ ToSet(c.todo) \subseteq Deletes /\ c.todo # <<>> /\ c.todo \in Seq(Todos)
  <2>1. CASE c.kind = "push"
    <3>1. PICK y : c.todo[1] = <<"build", y>> \/ c.todo[1] = <<"push", y>>
      BY <1>3, <2>1, PlanOfPush DEF Planned
    <3> QED BY <1>1, <1>2, <3>1
  <2>2. CASE c.kind = "none" BY <1>1, <1>2, <1>3, <2>2 DEF Planned
  <2>3. c.kind = "clean" /\ c.todo \in Seq(Todos) BY <2>1, <2>2 DEF Doings
  <2>4. c.todo # <<<<"list">>>>
    <3>1. <<<<"list">>>>[1][1] = "list" OBVIOUS
    <3> QED BY <1>1, <1>2, <3>1
  <2> QED BY <1>1, <1>2, <1>3, <2>3, <2>4 DEF Planned
<1>5. c.todo[1] \in ToSet(c.todo) BY <1>4, RestOfSeq
<1> QED BY <1>2, <1>4, <1>5

LEMMA DeletionIs ==
  ASSUME ImagesInv, NEW u \in Users, Delete(u)
  PROVE  \/ UNCHANGED <<image, kept>>
         \/ \E r0 \in Roles, b0 \in Nat \ {0} :
              /\ <<"image", r0, b0>> \in ToSet(doing[u].todo)
              /\ IsDeletion(image, image', kept, kept', r0, b0)
<1> DEFINE x == doing[u].todo[1]
<1>1. UNCHANGED registry \/ Deleted(x[1], x[2], x[3]) BY DEF Delete
<1>6. x \in Deletes /\ x \in ToSet(doing[u].todo) BY DeletingIs DEF Delete
<1>11. RegistryType BY DEF ImagesInv
<1> HIDE DEF x
<1>2. CASE ~UNCHANGED <<image, kept>>
  <2>1. Deleted(x[1], x[2], x[3]) /\ x[1] # "boms" BY <1>1, <1>2 DEF registry, Deleted
  <2>2. PICK r0 \in Roles, b0 \in Nat \ {0} : x = <<"image", r0, b0>> BY <1>6, <2>1 DEF Deletes
  <2>3. /\ kept' = [kept EXCEPT ![r0] = kept[r0] \ {b0}]
        /\ image' = [image EXCEPT ![r0] = [n \in Names |-> IF image[r0][n] = b0 THEN 0 ELSE image[r0][n]]]
    BY <2>1, <2>2 DEF Deleted
  <2>4. image \in [Roles -> [Names -> Nat]] /\ kept \in [Roles -> SUBSET (Nat \ {0})] BY <1>11 DEF RegistryType
  <2>5. /\ \A r \in Roles, n \in Names : image'[r][n] = IF r = r0 /\ image[r][n] = b0 THEN 0 ELSE image[r][n]
        /\ \A r \in Roles : kept'[r] = IF r = r0 THEN kept[r] \ {b0} ELSE kept[r]
        /\ image' \in [Roles -> [Names -> Nat]] /\ kept' \in [Roles -> SUBSET (Nat \ {0})]
    <3> DEFINE new == [n \in Names |-> IF image[r0][n] = b0 THEN 0 ELSE image[r0][n]]
    <3>1. new \in [Names -> Nat] /\ \A n \in Names : new[n] = IF image[r0][n] = b0 THEN 0 ELSE image[r0][n]
      BY <2>4
    <3> HIDE DEF new
    <3>2. image' = [image EXCEPT ![r0] = new] BY <2>3 DEF new
    <3> QED BY <2>3, <2>4, <3>1, <3>2
  <2>6. \A r \in Roles : IsFiniteSet(kept[r]) /\ IsFiniteSet(kept'[r])
    <3>1. \A r \in Roles : kept'[r] \in SUBSET kept[r] BY <2>5
    <3> QED BY <1>11, <3>1, FS_Subset DEF RegistryType
  <2> QED BY <1>6, <1>11, <2>2, <2>4, <2>5 DEF IsDeletion, RegistryType
<1> QED BY <1>2

LEMMA DeleteKeeps == ASSUME ImagesInv, NEW u \in Users, Delete(u) PROVE ImagesInv'
<1> DEFINE x == doing[u].todo[1]
<1>1. /\ doing[u].todo # <<>> /\ x[1] \in {"image", "boms"}
      /\ UNCHANGED registry \/ Deleted(x[1], x[2], x[3])
      /\ Goes(u) /\ UNCHANGED <<builds, pin, settled, begun>>
  BY DEF Delete, Does
<1>2. PICK c \in Doings : c = doing[u] BY DEF ImagesInv, PlansType
<1>3. Planned(c) /\ PlanHolds(c, image, kept, pin) BY <1>2 DEF ImagesInv, PlansType, CleansOK
<1>4. c.kind = "clean" /\ ToSet(c.todo) \subseteq Deletes /\ c.todo # <<>> /\ c.todo \in Seq(Todos)
  BY <1>1, <1>2, DeletingIs DEF Does
<1>5. c.todo[1] \in ToSet(c.todo) /\ ToSet(Tail(c.todo)) \subseteq ToSet(c.todo) BY <1>4, RestOfSeq
<1>6. x \in ToSet(c.todo) /\ x \in Deletes BY <1>2, <1>4, <1>5
<1>7. PICK e \in Doings :
        /\ doing' = [doing EXCEPT ![u] = e] /\ Planned(e)
        /\ \/ e = Nothing
           \/ /\ e.todo = Tail(c.todo) /\ e.kind = "clean" /\ e.spared = c.spared
              /\ e.name = c.name /\ (e.raced <=> c.raced)
  <2>1. PlansType BY DEF ImagesInv
  <2>2. doing[u].kind = "clean" /\ doing[u].todo # <<>> /\ ToSet(doing[u].todo) \subseteq Deletes BY <1>2, <1>4
  <2>3. PICK e \in Doings :
          /\ doing' = [doing EXCEPT ![u] = e] /\ Planned(e)
          /\ \/ e = Nothing
             \/ /\ e.todo = Tail(doing[u].todo) /\ e.kind = doing[u].kind /\ e.spared = doing[u].spared
                /\ e.name = doing[u].name /\ (e.raced <=> doing[u].raced)
    BY <1>1, <2>1, <2>2, GoesIs
  <2> QED BY <1>2, <1>4, <2>3
<1>8. e.kind = "none" \/ (e.kind = "clean" /\ doing[u].kind = "clean" /\ (e.raced <=> doing[u].raced))
  BY <1>2, <1>4, <1>7, NothingIs
<1>9. PlanHolds(e, image, kept, pin)
  <2>1. CASE e = Nothing BY <2>1, NothingIs DEF PlanHolds
  <2>2. CASE e # Nothing BY <1>3, <1>4, <1>5, <1>7, <2>2 DEF PlanHolds
  <2> QED BY <2>1, <2>2
<1>10. \A d \in Doings : d = e \/ (\E v \in Users : d = doing[v]) => PlanHolds(d, image, kept, pin)
  BY <1>9 DEF ImagesInv, CleansOK
<1>11. RegistryType BY DEF ImagesInv
<1> HIDE DEF x
<1>12. CASE UNCHANGED <<image, kept>>
  <2>1. RegistryType' BY <1>1, <1>11, <1>12 DEF RegistryType
  <2>2. \A r \in Roles, n \in Names : image'[r][n] \in {0, image[r][n]} BY <1>12
  <2>3. \A d \in Doings : d = e \/ (\E v \in Users : d = doing[v]) => PlanHolds(d, image', kept', pin')
    BY <1>1, <1>10, <1>12
  <2>4. UNCHANGED settled BY <1>1
  <2> QED BY <1>7, <1>8, <2>1, <2>2, <2>3, <2>4, LessKeeps
<1>13. CASE ~UNCHANGED <<image, kept>>
  <2>1. PICK r0 \in Roles, b0 \in Nat \ {0} :
          <<"image", r0, b0>> \in ToSet(c.todo) /\ IsDeletion(image, image', kept, kept', r0, b0)
    BY <1>2, <1>13, DeletionIs
  <2>7. RegistryType'
    <3>1. \A r \in Roles : kept'[r] \in SUBSET kept[r] BY <2>1 DEF IsDeletion
    <3>2. \A r \in Roles : IsFiniteSet(kept'[r]) BY <1>11, <3>1, FS_Subset DEF RegistryType
    <3> QED BY <1>1, <1>11, <2>1, <3>2 DEF RegistryType, IsDeletion
  <2>8. \A r \in Roles, n \in Names : image'[r][n] \in {0, image[r][n]} BY <2>1 DEF IsDeletion
  <2>9. ASSUME NEW d \in Doings, d = e \/ (\E v \in Users : d = doing[v])
        PROVE  PlanHolds(d, image', kept', pin')
    <3>1. PlanHolds(d, image, kept, pin) BY <1>10, <2>9
    <3>2. CASE c.raced
      <4>1. Crossed BY <1>2, <1>4, <3>2 DEF Crossed
      <4>2. d.kind = "clean" => d.raced
        <5>1. \A v \in Users : doing[v].kind = "clean" => doing[v].raced BY <4>1 DEF ImagesInv, CleansOK
        <5>2. CASE d = e BY <1>7, <3>2, <5>2, NothingIs
        <5> QED BY <2>9, <5>1, <5>2
      <4> QED BY <4>2 DEF PlanHolds
    <3>3. CASE ~c.raced
      <4>1. EnoughNewer(image, kept, r0, b0) BY <1>3, <1>4, <2>1, <3>3 DEF PlanHolds
      <4>2. UNCHANGED pin BY <1>1
      <4>3. PICK im, im2, ke, ke2, p : im = image /\ im2 = image' /\ ke = kept /\ ke2 = kept' /\ p = pin OBVIOUS
      <4>4. /\ IsDeletion(im, im2, ke, ke2, r0, b0)
            /\ EnoughNewer(im, ke, r0, b0) /\ PlanHolds(d, im, ke, p)
        BY <2>1, <3>1, <4>1, <4>3
      <4>5. PlanHolds(d, im2, ke2, p) BY <2>1, <4>4, DeletionKeepsPlan
      <4> QED BY <4>2, <4>3, <4>5
    <3> QED BY <3>2, <3>3
  <2>10. UNCHANGED settled BY <1>1
  <2> QED BY <1>7, <1>8, <2>7, <2>8, <2>9, <2>10, LessKeeps
<1> QED BY <1>12, <1>13

LEMMA BuildKeeps == ASSUME ImagesInv, NEW u \in Users, Build(u) PROVE ImagesInv'
<1>1. /\ doing[u].todo # <<>> /\ doing[u].todo[1][1] = "build"
      /\ UNCHANGED <<image, kept, pin, settled, begun>>
  BY DEF Build, Does, registry
<1>2. PICK b \in 1..(Len(builds) + 1) :
        /\ builds' = builds \/ builds' = Append(builds, doing[u].todo[1][2])
        /\ doing' = [doing EXCEPT ![u].todo = Tail(@), ![u].build = b]
  BY DEF Build
<1>3. PICK c \in Doings : c = doing[u] BY DEF ImagesInv, PlansType
<1>4. Planned(c) /\ PushedIs(c, image, settled) BY <1>3 DEF ImagesInv, PlansType, PushesOK
<1>5. c.kind = "push" /\ c.todo \notin ToPush
  <2>1. c.todo \notin ToPush
    <3> SUFFICES ASSUME c.todo \in ToPush PROVE FALSE OBVIOUS
    <3>1. PICK r : c.todo[1] = <<"push", r>> BY PlanOfPush
    <3> QED BY <1>1, <1>3, <3>1
  <2>2. CASE c.kind = "clean"
    <3>1. c.todo # <<<<"list">>>>
      <4>1. <<<<"list">>>>[1][1] = "list" OBVIOUS
      <4> QED BY <1>1, <1>3, <4>1
    <3>2. ToSet(c.todo) \subseteq Deletes /\ c.todo # <<>> /\ c.todo \in Seq(Todos)
      BY <1>4, <2>2, <3>1 DEF Planned, Doings
    <3>3. c.todo[1] \in Deletes BY <3>2, RestOfSeq
    <3> QED BY <1>1, <1>3, <3>3 DEF Deletes
  <2>3. CASE c.kind = "none" BY <1>1, <1>3, <1>4, <2>3 DEF Planned
  <2> QED BY <2>1, <2>2, <2>3 DEF Doings
<1>6. PICK m \in Commits : c.todo = PushPlan(m) BY <1>4, <1>5 DEF Planned
<1>7. builds \in Seq(Commits) BY DEF ImagesInv, RegistryType
<1>8. b \in Nat /\ b > 0 BY <1>7, LenProperties
<1> DEFINE e == [c EXCEPT !.todo = Tail(c.todo), !.build = b]
<1>9. doing' = [doing EXCEPT ![u] = e] BY <1>2, <1>3 DEF ImagesInv, PlansType
<1>10. Tail(c.todo) \in ToPush /\ Tail(c.todo) \in Seq(Todos) /\ c.todo[1][2] = m
  <2>1. Tail(PushPlan(m)) \in ToPush /\ PushPlan(m)[1] = <<"build", m>> BY PlanOfPush
  <2>2. Tail(PushPlan(m)) \in Seq(Todos) BY <2>1, PlanOfPush
  <2> QED BY <1>6, <2>1, <2>2
<1>11. /\ e \in Doings /\ e.todo = Tail(c.todo) /\ e.build = b /\ e.kind = "push"
       /\ e.name = c.name /\ (e.raced <=> c.raced)
  BY <1>5, <1>8, <1>10 DEF Doings
<1> HIDE DEF e
<1>12. Planned(e) BY <1>4, <1>5, <1>8, <1>10, <1>11 DEF Planned
<1>13. PlansType' /\ doing'[u] = e /\ \A v \in Users : v # u => doing'[v] = doing[v]
  BY <1>9, <1>11, <1>12, OneMoves DEF ImagesInv
<1>14. RegistryType'
  <2>1. builds' \in Seq(Commits)
    <3>1. builds' = builds \/ builds' = Append(builds, m) BY <1>2, <1>3, <1>10
    <3>2. Append(builds, m) \in Seq(Commits) BY <1>7, AppendProperties
    <3> QED BY <1>7, <3>1, <3>2
  <2> QED BY <1>1, <2>1 DEF ImagesInv, RegistryType
<1>15. \A r \in Roles : <<"push", r>> \in ToSet(Tail(c.todo))
  <2> TAKE r \in Roles
  <2>1. Tail(c.todo) = <<<<"push", "web">>, <<"push", "proxy">>, <<"push", "db">>>> BY <1>6 DEF PushPlan
  <2> QED BY <2>1, PlanOfPush
<1>16. PushedIs(e, image, settled) BY <1>4, <1>5, <1>11, <1>15 DEF PushedIs
<1>17. PushesOK'
  <2>1. ASSUME NEW v \in Users PROVE PushedIs(doing'[v], image', settled')
    <3>1. v = u \/ doing'[v] = doing[v] BY <1>13
    <3>2. PushedIs(doing[v], image, settled) BY DEF ImagesInv, PushesOK
    <3> QED BY <1>1, <1>13, <1>16, <3>1, <3>2
  <2>2. \A v \in Users : /\ doing'[v].kind = doing[v].kind /\ doing'[v].name = doing[v].name
                         /\ (doing'[v].raced <=> doing[v].raced)
    BY <1>3, <1>5, <1>11, <1>13
  <2>3. \A v, w \in Users : v # w /\ doing'[v].kind = "push" /\ doing'[w].kind = "push"
                            /\ doing'[v].name = doing'[w].name => doing'[v].raced
    BY <2>2 DEF ImagesInv, PushesOK
  <2> QED BY <2>1, <2>3 DEF PushesOK
<1>18. SettledIsOneBuild' BY <1>1 DEF ImagesInv, SettledIsOneBuild
<1>19. CleansOK'
  <2>1. Crossed BY <1>3, <1>5 DEF Crossed
  <2>2. \A v \in Users : doing'[v].kind = "clean" => doing'[v].raced
    BY <1>11, <1>13, <2>1 DEF ImagesInv, CleansOK
  <2> QED BY <2>2 DEF CleansOK, PlanHolds
<1> QED BY <1>13, <1>14, <1>17, <1>18, <1>19 DEF ImagesInv

LEMMA PushImageKeeps == ASSUME ImagesInv, NEW u \in Users, PushImage(u) PROVE ImagesInv'
<1> DEFINE r0 == Role(u)
<1>1. /\ doing[u].todo # <<>> /\ doing[u].todo[1][1] = "push"
      /\ image' = [image EXCEPT ![r0][doing[u].name] = doing[u].build]
      /\ kept' = [kept EXCEPT ![r0] = @ \cup {doing[u].build}]
      /\ UNCHANGED <<builds, pin, begun>>
      /\ GoesOn(u) \/ (settled' = settled /\ doing' = [doing EXCEPT ![u] = Nothing])
  BY DEF PushImage, Does, PushedTo
<1>2. PICK c \in Doings : c = doing[u] BY DEF ImagesInv, PlansType
<1>3. Planned(c) /\ PushedIs(c, image, settled) BY <1>2 DEF ImagesInv, PlansType, PushesOK
<1>4. c.kind = "push" /\ c.todo \in ToPush /\ c.name \in Names /\ c.build > 0 /\ c.build \in Nat
  BY <1>1, <1>2, PushingIs DEF Does
<1>5. r0 \in Roles /\ c.todo[1] = <<"push", r0>> BY <1>1, <1>2, PushingIs DEF Does
<1> HIDE DEF r0
<1>6. image \in [Roles -> [Names -> Nat]] /\ kept \in [Roles -> SUBSET (Nat \ {0})]
  BY DEF ImagesInv, RegistryType
<1>7. /\ image' \in [Roles -> [Names -> Nat]]
      /\ image'[r0][c.name] = c.build
      /\ \A r \in Roles, n \in Names : r # r0 \/ n # c.name => image'[r][n] = image[r][n]
  <2> DEFINE new == [image[r0] EXCEPT ![c.name] = c.build]
  <2>1. /\ new \in [Names -> Nat] /\ new[c.name] = c.build
        /\ \A n \in Names : n # c.name => new[n] = image[r0][n]
    BY <1>4, <1>5, <1>6
  <2> HIDE DEF new
  <2>2. image' = [image EXCEPT ![r0] = new] BY <1>1, <1>2 DEF new
  <2> QED BY <1>5, <1>6, <2>1, <2>2
<1>8. /\ kept' \in [Roles -> SUBSET (Nat \ {0})]
      /\ \A r \in Roles : kept'[r] \in {kept[r], kept[r] \cup {c.build}}
  BY <1>1, <1>2, <1>4, <1>5, <1>6
<1>9. PICK e \in Doings :
        /\ doing' = [doing EXCEPT ![u] = e] /\ Planned(e)
        /\ \/ /\ e = Nothing
              /\ settled' = settled \/ (~(Len(c.todo) > 1) /\ ~c.raced /\ settled' = settled \cup {c.name})
           \/ /\ e.todo = Tail(c.todo) /\ e.kind = "push" /\ e.name = c.name /\ e.build = c.build
              /\ (e.raced <=> c.raced) /\ settled' = settled
  <2>1. CASE settled' = settled /\ doing' = [doing EXCEPT ![u] = Nothing] BY <2>1, NothingIs
  <2>2. CASE GoesOn(u)
    <3>1. PlansType /\ Goes(u) BY <2>2 DEF ImagesInv, GoesOn
    <3>2. doing[u].kind = "push" /\ doing[u].todo \in ToPush BY <1>2, <1>4
    <3>3. PICK e \in Doings :
            /\ doing' = [doing EXCEPT ![u] = e] /\ Planned(e)
            /\ \/ e = Nothing /\ ~(Len(doing[u].todo) > 1)
               \/ /\ Len(doing[u].todo) > 1 /\ e.todo = Tail(doing[u].todo)
                  /\ e.kind = doing[u].kind /\ e.name = doing[u].name /\ e.build = doing[u].build
                  /\ (e.raced <=> doing[u].raced)
      BY <3>1, <3>2, GoesIs
    <3>4. settled' = IF Len(c.todo) > 1 \/ c.raced THEN settled ELSE settled \cup {c.name}
      BY <1>2, <2>2 DEF GoesOn
    <3> QED BY <1>2, <1>4, <3>3, <3>4
  <2> QED BY <1>1, <2>1, <2>2
<1>10. PlansType' /\ doing'[u] = e /\ \A v \in Users : v # u => doing'[v] = doing[v]
  BY <1>9, OneMoves DEF ImagesInv
<1>11. RegistryType'
  <2>1. \A r \in Roles : IsFiniteSet(kept'[r])
    <3> TAKE r \in Roles
    <3>1. IsFiniteSet(kept[r]) BY DEF ImagesInv, RegistryType
    <3>2. IsFiniteSet(kept[r] \cup {c.build}) BY <3>1, FS_AddElement
    <3> QED BY <1>8, <3>1, <3>2
  <2>2. settled' \in SUBSET Names BY <1>4, <1>9 DEF ImagesInv, RegistryType
  <2> QED BY <1>1, <1>7, <1>8, <2>1, <2>2 DEF ImagesInv, RegistryType
<1>12. \A v \in Users : v # u /\ doing[v].kind = "push" /\ doing[v].name = c.name => doing[v].raced /\ c.raced
  BY <1>2, <1>4 DEF ImagesInv, PushesOK
<1>13. PushesOK'
  <2>1. ASSUME NEW v \in Users PROVE PushedIs(doing'[v], image', settled')
    <3>1. CASE v # u
      <4>1. PICK d \in Doings : d = doing[v] /\ d = doing'[v] BY <1>10, <3>1 DEF PlansType
      <4>2. PushedIs(d, image, settled) /\ Planned(d) BY <4>1 DEF ImagesInv, PushesOK, PlansType
      <4>3. CASE d.kind = "push" /\ d.name = c.name
        <5>1. d.raced /\ c.raced BY <1>12, <3>1, <4>1, <4>3
        <5>2. settled' = settled BY <1>9, <5>1
        <5> QED BY <4>1, <4>2, <5>1, <5>2 DEF PushedIs
      <4>4. CASE d.kind = "push" /\ d.name # c.name
        <5>1. d.name \in Names /\ (d.name \in settled' => d.name \in settled) BY <1>9, <4>2, <4>4 DEF Planned
        <5>2. \A r \in Roles : image'[r][d.name] = image[r][d.name] BY <1>7, <4>4, <5>1
        <5> QED BY <4>1, <4>2, <5>1, <5>2 DEF PushedIs
      <4> QED BY <4>1, <4>3, <4>4 DEF PushedIs
    <3>2. CASE v = u
      <4>1. CASE e.kind = "push"
        <5>1. e.todo = Tail(c.todo) /\ e.name = c.name /\ e.build = c.build /\ (e.raced <=> c.raced) /\ settled' = settled
          BY <1>9, <4>1, NothingIs
        <5>2. ASSUME ~c.raced, NEW r \in Roles, <<"push", r>> \notin ToSet(Tail(c.todo))
              PROVE  image'[r][c.name] \in {0, c.build}
          <6>1. CASE r = r0 BY <1>7, <6>1
          <6>2. CASE r # r0
            <7>1. <<"push", r>> \notin ToSet(c.todo) BY <1>4, <1>5, <5>2, <6>2, PlanOfPush
            <7> QED BY <1>3, <1>4, <1>7, <5>2, <6>2, <7>1 DEF PushedIs
          <6> QED BY <6>1, <6>2
        <5>3. PushedIs(e, image', settled') BY <1>3, <1>4, <5>1, <5>2 DEF PushedIs
        <5> QED BY <1>10, <3>2, <5>3
      <4>2. CASE e.kind # "push" BY <1>10, <3>2, <4>2 DEF PushedIs
      <4> QED BY <4>1, <4>2
    <3> QED BY <3>1, <3>2
  <2>2. ASSUME NEW v \in Users, NEW w \in Users, v # w, doing'[v].kind = "push", doing'[w].kind = "push",
               doing'[v].name = doing'[w].name
        PROVE  doing'[v].raced
    <3>1. \A x \in Users : doing'[x].kind = "push" =>
            doing[x].kind = "push" /\ doing'[x].name = doing[x].name /\ (doing'[x].raced <=> doing[x].raced)
      BY <1>2, <1>4, <1>9, <1>10, NothingIs
    <3> QED BY <2>2, <3>1 DEF ImagesInv, PushesOK
  <2> QED BY <2>1, <2>2 DEF PushesOK
<1>14. SettledIsOneBuild'
  <2> SUFFICES ASSUME NEW n \in settled', NEW r \in Roles, NEW s \in Roles, image'[r][n] # 0, image'[s][n] # 0
               PROVE  image'[r][n] = image'[s][n]
    BY DEF SettledIsOneBuild
  <2>1. CASE n \in settled
    <3>1. n # c.name /\ n \in Names BY <1>3, <1>4, <2>1 DEF PushedIs, ImagesInv, RegistryType
    <3> QED BY <1>7, <2>1, <3>1 DEF ImagesInv, SettledIsOneBuild
  <2>2. CASE n \notin settled
    <3>1. n = c.name /\ ~(Len(c.todo) > 1) /\ ~c.raced BY <1>9, <2>2
    <3>2. \A t \in Roles : image'[t][n] \in {0, c.build}
      <4> TAKE t \in Roles
      <4>1. CASE t = r0 BY <1>7, <3>1, <4>1
      <4>2. CASE t # r0
        <5>1. <<"push", t>> \notin ToSet(c.todo) BY <1>4, <1>5, <3>1, <4>2, PlanOfPush
        <5> QED BY <1>3, <1>4, <1>7, <3>1, <4>2, <5>1 DEF PushedIs
      <4> QED BY <4>1, <4>2
    <3> QED BY <3>2
  <2> QED BY <2>1, <2>2
<1>15. CleansOK'
  <2>1. Crossed BY <1>2, <1>4 DEF Crossed
  <2>2. \A v \in Users : doing'[v].kind = "clean" => doing'[v].raced
    BY <1>9, <1>10, <2>1, NothingIs DEF ImagesInv, CleansOK
  <2> QED BY <2>2 DEF CleansOK, PlanHolds
<1> QED BY <1>10, <1>11, <1>13, <1>14, <1>15 DEF ImagesInv

----------------------------------------------------------------------------
(* Commands that begin, and the pin.                                       *)

Same(d, c) ==
    /\ d.kind = c.kind /\ d.name = c.name /\ d.build = c.build
    /\ d.todo = c.todo /\ d.spared = c.spared

LEMMA SameIs ==
  ASSUME NEW c \in Doings, NEW r \in BOOLEAN, NEW d, d = [c EXCEPT !.raced = r]
  PROVE  d \in Doings /\ Same(d, c) /\ (d.raced <=> r) /\ (Planned(c) => Planned(d))
<1>1. d \in Doings /\ Same(d, c) /\ (d.raced <=> r) BY DEF Doings, Same
<1> QED BY <1>1 DEF Same, Planned

LEMMA BeginsIs ==
  ASSUME ImagesInv, NEW u \in Users, NEW c \in Doings, Planned(c), Begins(u, c)
  PROVE  /\ PlansType'
         /\ doing[u].kind = "none" /\ UNCHANGED <<builds, image, kept, pin>> /\ begun' \in Nat
         /\ \A v \in Users \ {u} :
              /\ Same(doing'[v], doing[v])
              /\ doing'[v].raced <=> doing[v].raced \/ Disturbs(c, doing[v])
         /\ Same(doing'[u], c)
         /\ doing'[u].raced <=> \E x \in Users : Disturbs(doing[x], c)
<1> DEFINE now(v) == IF v = u THEN [c EXCEPT !.raced = \E x \in Users : Disturbs(doing[x], c)]
                     ELSE [doing[v] EXCEPT !.raced = doing[v].raced \/ Disturbs(c, doing[v])]
<1>1. /\ doing[u] = Nothing /\ begun' = begun + 1
      /\ doing' = [v \in Users |-> now(v)]
      /\ UNCHANGED <<builds, image, kept, pin>>
  BY DEF Begins, registry
<1>2. doing \in [Users -> Doings] /\ \A v \in Users : Planned(doing[v]) BY DEF ImagesInv, PlansType
<1>3. ASSUME NEW v \in Users, v # u
      PROVE  /\ now(v) \in Doings /\ Planned(now(v)) /\ Same(now(v), doing[v])
             /\ now(v).raced <=> doing[v].raced \/ Disturbs(c, doing[v])
  <2>1. PICK d \in Doings : d = doing[v] BY <1>2
  <2>2. PICK r \in BOOLEAN : r <=> d.raced \/ Disturbs(c, d) OBVIOUS
  <2>3. now(v) = [d EXCEPT !.raced = d.raced \/ Disturbs(c, d)] BY <1>3, <2>1
  <2>4. r = (d.raced \/ Disturbs(c, d)) BY <2>2 DEF Doings, Disturbs
  <2>5. now(v) = [d EXCEPT !.raced = r] BY <2>3, <2>4
  <2> HIDE DEF now
  <2>6. PICK e : e = now(v) OBVIOUS
  <2>7. e \in Doings /\ Same(e, d) /\ (e.raced <=> r) /\ (Planned(d) => Planned(e)) BY <2>5, <2>6, SameIs
  <2> QED BY <1>2, <2>1, <2>2, <2>6, <2>7
<1>4. /\ now(u) \in Doings /\ Planned(now(u)) /\ Same(now(u), c)
      /\ now(u).raced <=> \E x \in Users : Disturbs(doing[x], c)
  <2> DEFINE D == \E x \in Users : Disturbs(doing[x], c)
  <2>1. now(u) = [c EXCEPT !.raced = D] BY Zenon
  <2>2. PICK r \in BOOLEAN : r = D OBVIOUS
  <2> HIDE DEF now, D
  <2>3. PICK e : e = now(u) OBVIOUS
  <2>4. e = [c EXCEPT !.raced = r] BY <2>1, <2>2, <2>3
  <2>5. e \in Doings /\ Same(e, c) /\ (e.raced <=> r) /\ Planned(e) BY <2>4, SameIs
  <2> QED BY <2>2, <2>3, <2>5 DEF D
<1> HIDE DEF now
<1>5. \A v \in Users : doing'[v] = now(v) BY <1>1
<1>6. doing' \in [Users -> Doings]
  <2>1. \A v \in Users : now(v) \in Doings BY <1>3, <1>4
  <2> QED BY <1>1, <2>1
<1>7. \A v \in Users : Planned(doing'[v]) BY <1>3, <1>4, <1>5
<1>8. PlansType' BY <1>6, <1>7 DEF PlansType, Planned
<1>9. doing[u].kind = "none" /\ begun' \in Nat BY <1>1, NothingIs DEF ImagesInv, RegistryType
<1> QED BY <1>1, <1>3, <1>4, <1>5, <1>8, <1>9

LEMMA PushKeeps == ASSUME ImagesInv, NEW u \in Users, Push(u) PROVE ImagesInv'
<1>0. PICK m \in Commits : \E n \in {DefaultName(m)} \cup GivenNames :
        /\ Begins(u, [Nothing EXCEPT !.kind = "push", !.name = n, !.todo = PushPlan(m)])
        /\ settled' = settled \ {n}
  BY DEF Push
<1>1. PICK n \in {DefaultName(m)} \cup GivenNames :
        /\ Begins(u, [Nothing EXCEPT !.kind = "push", !.name = n, !.todo = PushPlan(m)])
        /\ settled' = settled \ {n}
  BY <1>0
<1>2. n \in Names
  <2>1. DefaultName(m) \in Names
    <3>1. CASE TagsAt[m] = <<>> BY <3>1 DEF DefaultName, Names
    <3>2. CASE TagsAt[m] # <<>>
      <4>1. TagsAt[m] \in Seq(Tags) BY ImagesAssumption
      <4>2. TagsAt[m][1] \in Tags BY <3>2, <4>1, RestOfSeq
      <4> QED BY <3>2, <4>2 DEF DefaultName, Names
    <3> QED BY <3>1, <3>2
  <2> QED BY <1>1, <2>1 DEF Names
<1> DEFINE c == [Nothing EXCEPT !.kind = "push", !.name = n, !.todo = PushPlan(m)]
<1>3. /\ c \in Doings /\ c.kind = "push" /\ c.name = n /\ c.todo = PushPlan(m) /\ c.build = 0 /\ ~c.raced
  <2>1. PushPlan(m) \in Seq(Todos) BY PlanOfPush
  <2> QED BY <1>2, <2>1 DEF Nothing, Doings
<1> HIDE DEF c
<1>4. Planned(c) BY <1>2, <1>3 DEF Planned
<1>5. Begins(u, c) BY <1>1 DEF c
<1>6. /\ PlansType'
      /\ doing[u].kind = "none" /\ UNCHANGED <<builds, image, kept, pin>> /\ begun' \in Nat
      /\ \A v \in Users \ {u} :
           /\ Same(doing'[v], doing[v])
           /\ doing'[v].raced <=> doing[v].raced \/ Disturbs(c, doing[v])
      /\ Same(doing'[u], c)
      /\ doing'[u].raced <=> \E x \in Users : Disturbs(doing[x], c)
  BY <1>3, <1>4, <1>5, BeginsIs
<1>7. settled' = settled \ {n} BY <1>1
<1>8. RegistryType' BY <1>6, <1>7 DEF ImagesInv, RegistryType
<1>9. PushesOK'
  <2>1. ASSUME NEW v \in Users PROVE PushedIs(doing'[v], image', settled')
    <3>1. CASE v = u
      <4>1. \A r \in Roles : <<"push", r>> \in ToSet(PushPlan(m)) BY PlanOfPush
      <4>2. Same(doing'[v], c) BY <1>6, <3>1
      <4> QED BY <1>3, <1>7, <4>1, <4>2 DEF PushedIs, Same
    <3>2. CASE v # u
      <4>1. PushedIs(doing[v], image, settled) BY DEF ImagesInv, PushesOK
      <4>2. Same(doing'[v], doing[v]) /\ (doing[v].raced => doing'[v].raced) /\ UNCHANGED image BY <1>6, <3>2
      <4> QED BY <1>7, <4>1, <4>2 DEF PushedIs, Same
    <3> QED BY <3>1, <3>2
  <2>2. ASSUME NEW v \in Users, NEW w \in Users, v # w, doing'[v].kind = "push", doing'[w].kind = "push",
               doing'[v].name = doing'[w].name
        PROVE  doing'[v].raced
    <3>1. CASE v = u
      <4>1. Same(doing'[w], doing[w]) /\ Same(doing'[v], c) BY <1>6, <2>2, <3>1
      <4>2. doing[w].kind = "push" /\ doing[w].name = c.name BY <2>2, <4>1 DEF Same
      <4>3. Disturbs(doing[w], c) BY <1>3, <4>2 DEF Disturbs
      <4> QED BY <1>6, <3>1, <4>3
    <3>2. CASE w = u
      <4>1. Same(doing'[v], doing[v]) /\ Same(doing'[w], c) BY <1>6, <2>2, <3>2
      <4>2. doing[v].kind = "push" /\ doing[v].name = c.name BY <2>2, <4>1 DEF Same
      <4>3. Disturbs(c, doing[v]) BY <1>3, <4>2 DEF Disturbs
      <4> QED BY <1>6, <2>2, <3>2, <4>3
    <3>3. CASE v # u /\ w # u
      <4>1. Same(doing'[v], doing[v]) /\ Same(doing'[w], doing[w]) /\ (doing[v].raced => doing'[v].raced)
        BY <1>6, <3>3
      <4> QED BY <2>2, <4>1 DEF Same, ImagesInv, PushesOK
    <3> QED BY <3>1, <3>2, <3>3
  <2> QED BY <2>1, <2>2 DEF PushesOK
<1>10. SettledIsOneBuild' BY <1>6, <1>7 DEF ImagesInv, SettledIsOneBuild
<1>11. CleansOK'
  <2>1. ASSUME NEW v \in Users, doing'[v].kind = "clean" PROVE doing'[v].raced
    <3>1. v # u BY <1>3, <1>6, <2>1 DEF Same
    <3>2. doing[v].kind = "clean" BY <1>6, <2>1, <3>1 DEF Same
    <3>3. Disturbs(c, doing[v]) BY <1>3, <3>2 DEF Disturbs
    <3> QED BY <1>6, <3>1, <3>3
  <2> QED BY <2>1 DEF CleansOK, PlanHolds
<1> QED BY <1>6, <1>8, <1>9, <1>10, <1>11 DEF ImagesInv

LEMMA CleanKeeps == ASSUME ImagesInv, NEW u \in Users, Clean(u) PROVE ImagesInv'
<1>1. PICK readable \in BOOLEAN :
        /\ Begins(u, [Nothing EXCEPT !.kind = "clean", !.name = pin.trees[u],
                                     !.spared = Patterns \cup DeployTags(u, readable),
                                     !.todo = <<<<"list">>>>])
        /\ UNCHANGED settled
  BY DEF Clean
<1>2. pin \in [name : Names, hidden : BOOLEAN, trees : [Users -> Names]] BY DEF ImagesInv, RegistryType
<1>3. PICK spared \in SUBSET Names, n \in Names :
        /\ n = pin.trees[u] /\ spared = Patterns \cup DeployTags(u, readable)
        /\ (~pin.hidden => n \in spared) /\ Patterns \subseteq spared
  <2>1. pin.trees[u] \in Names BY <1>2
  <2>2. DeployTags(u, readable) \in SUBSET Names /\ (~pin.hidden => pin.trees[u] \in DeployTags(u, readable))
    BY <2>1 DEF DeployTags
  <2>3. Patterns \cup DeployTags(u, readable) \in SUBSET Names BY <2>2, ImagesAssumption
  <2> QED BY <2>1, <2>2, <2>3
<1> DEFINE c == [Nothing EXCEPT !.kind = "clean", !.name = n, !.spared = spared, !.todo = <<<<"list">>>>]
<1>4. /\ c \in Doings /\ c.kind = "clean" /\ c.name = n /\ c.spared = spared
      /\ c.todo = <<<<"list">>>> /\ ~c.raced
  <2>1. <<<<"list">>>> \in Seq(Todos) BY DEF Todos
  <2> QED BY <2>1 DEF Nothing, Doings
<1>5. Begins(u, c) BY <1>1, <1>3
<1> HIDE DEF c
<1>6. Planned(c) BY <1>4 DEF Planned
<1>7. /\ PlansType'
      /\ doing[u].kind = "none" /\ UNCHANGED <<builds, image, kept, pin>> /\ begun' \in Nat
      /\ \A v \in Users \ {u} :
           /\ Same(doing'[v], doing[v])
           /\ doing'[v].raced <=> doing[v].raced \/ Disturbs(c, doing[v])
      /\ Same(doing'[u], c)
      /\ doing'[u].raced <=> \E x \in Users : Disturbs(doing[x], c)
  BY <1>4, <1>5, <1>6, BeginsIs
<1>8. RegistryType' BY <1>1, <1>7 DEF ImagesInv, RegistryType
<1>9. \A v \in Users \ {u} : Same(doing'[v], doing[v]) /\ (doing'[v].raced <=> doing[v].raced)
  BY <1>4, <1>7 DEF Disturbs
<1>10. /\ doing'[u].kind = "clean" /\ doing'[u].name = n /\ doing'[u].spared = spared
       /\ doing'[u].todo = <<<<"list">>>>
  BY <1>4, <1>7 DEF Same
<1>11. PushesOK'
  <2>1. ASSUME NEW v \in Users PROVE PushedIs(doing'[v], image', settled')
    <3>1. CASE v = u BY <1>10, <3>1 DEF PushedIs
    <3>2. CASE v # u
      <4>1. PushedIs(doing[v], image, settled) BY DEF ImagesInv, PushesOK
      <4> QED BY <1>1, <1>7, <1>9, <3>2, <4>1 DEF PushedIs, Same
    <3> QED BY <3>1, <3>2
  <2>2. ASSUME NEW v \in Users, NEW w \in Users, v # w, doing'[v].kind = "push", doing'[w].kind = "push",
               doing'[v].name = doing'[w].name
        PROVE  doing'[v].raced
    <3>1. v # u /\ w # u BY <1>10, <2>2
    <3>2. /\ doing[v].kind = "push" /\ doing[w].kind = "push" /\ doing[v].name = doing[w].name
          /\ doing[v].raced => doing'[v].raced
      BY <1>9, <2>2, <3>1 DEF Same
    <3> QED BY <2>2, <3>2 DEF ImagesInv, PushesOK
  <2> QED BY <2>1, <2>2 DEF PushesOK
<1>12. SettledIsOneBuild' BY <1>1, <1>7 DEF ImagesInv, SettledIsOneBuild
<1>13. CleansOK'
  <2>1. ASSUME Crossed', NEW v \in Users, doing'[v].kind = "clean" PROVE doing'[v].raced
    <3>1. PICK x \in Users : doing'[x].kind = "push" \/ (doing'[x].kind = "clean" /\ doing'[x].raced)
      BY <2>1 DEF Crossed
    <3>2. PICK y \in Users : doing[y].kind = "push" \/ (doing[y].kind = "clean" /\ doing[y].raced)
      <4>1. CASE x # u
        <5>1. doing[x].kind = doing'[x].kind /\ (doing'[x].raced <=> doing[x].raced) BY <1>9, <4>1 DEF Same
        <5> QED BY <3>1, <5>1
      <4>2. CASE x = u
        <5>1. PICK y \in Users : Disturbs(doing[y], c) BY <1>7, <1>10, <3>1, <4>2
        <5> QED BY <1>4, <5>1 DEF Disturbs
      <4> QED BY <4>1, <4>2
    <3>3. CASE v = u
      <4>1. Disturbs(doing[y], c) BY <1>4, <3>2 DEF Disturbs
      <4> QED BY <1>7, <3>3, <4>1
    <3>4. CASE v # u
      <4>1. doing[v].kind = "clean" BY <1>9, <2>1, <3>4 DEF Same
      <4>2. Crossed BY <3>2 DEF Crossed
      <4>3. doing[v].raced BY <4>1, <4>2 DEF ImagesInv, CleansOK
      <4> QED BY <1>9, <3>4, <4>3
    <3> QED BY <3>3, <3>4
  <2>2. ASSUME NEW v \in Users PROVE PlanHolds(doing'[v], image', kept', pin')
    <3>1. CASE v = u
      <4>1. \A r, b : <<"image", r, b>> \notin ToSet(<<<<"list">>>>)
        <5>1. ToSet(<<<<"list">>>>) = {<<"list">>} BY DEF ToSet
        <5> QED BY <5>1
      <4> QED BY <1>3, <1>7, <1>10, <3>1, <4>1 DEF PlanHolds
    <3>2. CASE v # u
      <4>1. PlanHolds(doing[v], image, kept, pin) BY DEF ImagesInv, CleansOK
      <4>2. Same(doing'[v], doing[v]) /\ (doing'[v].raced <=> doing[v].raced) BY <1>9, <3>2
      <4> QED BY <1>7, <4>1, <4>2 DEF PlanHolds, Same
    <3> QED BY <3>1, <3>2
  <2> QED BY <2>1, <2>2 DEF CleansOK
<1> QED BY <1>7, <1>8, <1>11, <1>12, <1>13 DEF ImagesInv

LEMMA PinKeeps == ASSUME ImagesInv, NEW u \in Users, Pin(u) \/ Pull(u) PROVE ImagesInv'
<1>1. UNCHANGED <<builds, image, kept, settled, doing, begun>> BY DEF Pin, Pull, registry
<1>2. pin \in [name : Names, hidden : BOOLEAN, trees : [Users -> Names]] BY DEF ImagesInv, RegistryType
<1>3. /\ pin' \in [name : Names, hidden : BOOLEAN, trees : [Users -> Names]]
      /\ pin'.hidden = pin.hidden
  <2>1. PICK n \in Names, m \in Names : pin' = [pin EXCEPT !.name = m, !.trees = [pin.trees EXCEPT ![u] = n]]
    <3>1. CASE Pin(u)
      <4>1. PICK n \in Names : pin' = [pin EXCEPT !.name = n, !.trees[u] = n] BY <3>1 DEF Pin
      <4> QED BY <4>1
    <3>2. CASE Pull(u)
      <4>1. pin' = [pin EXCEPT !.name = pin.name, !.trees = [pin.trees EXCEPT ![u] = pin.name]]
        BY <1>2, <3>2 DEF Pull
      <4> QED BY <1>2, <4>1
    <3> QED BY <3>1, <3>2
  <2>2. [pin.trees EXCEPT ![u] = n] \in [Users -> Names] BY <1>2
  <2> QED BY <1>2, <2>1, <2>2
<1>4. RegistryType' BY <1>1, <1>3 DEF ImagesInv, RegistryType
<1>5. \A v \in Users : PlanHolds(doing[v], image, kept, pin') BY <1>3 DEF ImagesInv, CleansOK, PlanHolds
<1> QED BY <1>1, <1>4, <1>5
    DEF ImagesInv, PlansType, PushesOK, CleansOK, Crossed, SettledIsOneBuild

----------------------------------------------------------------------------
LEMMA ImagesInitHolds == ASSUME ImagesInit PROVE ImagesInv
<1>1. PICK m, d \in Commits : builds = <<m, d>> BY DEF ImagesInit
<1>2. builds \in Seq(Commits) /\ DOMAIN builds = 1..2 BY <1>1
<1>3. PICK f \in [Names -> {0} \cup DOMAIN builds] :
        image = [r \in Roles |-> f] /\ settled = {n \in Names : f[n] # 0}
  BY DEF ImagesInit
<1>4. /\ pin \in [name : settled, hidden : BOOLEAN, trees : [Users -> settled]]
      /\ kept = [r \in Roles |-> 1..2] /\ doing = [u \in Users |-> Nothing] /\ begun = 0
  BY <1>2 DEF ImagesInit
<1>5. image \in [Roles -> [Names -> Nat]] /\ \A r \in Roles : image[r] = f
  <2>1. f \in [Names -> Nat] BY <1>2
  <2> QED BY <1>3, <2>1
<1>6. kept \in [Roles -> SUBSET (Nat \ {0})] /\ \A r \in Roles : IsFiniteSet(kept[r])
  <2>1. IsFiniteSet(1..2) BY 1 \in Int, 2 \in Int, FS_Interval
  <2>2. 1..2 \subseteq Nat \ {0} OBVIOUS
  <2> QED BY <1>4, <2>1, <2>2
<1>7. RegistryType BY <1>2, <1>3, <1>4, <1>5, <1>6 DEF RegistryType
<1>8. \A u \in Users : doing[u] = Nothing BY <1>4
<1>9. PlansType
  <2>1. doing \in [Users -> Doings] BY <1>4, NothingIs
  <2> QED BY <1>8, <2>1, NothingIs DEF PlansType
<1>10. PushesOK BY <1>8, NothingIs DEF PushesOK, PushedIs
<1>11. SettledIsOneBuild BY <1>5 DEF SettledIsOneBuild
<1>12. CleansOK BY <1>8, NothingIs DEF CleansOK, PlanHolds
<1> QED BY <1>7, <1>9, <1>10, <1>11, <1>12 DEF ImagesInv

LEMMA ImagesNextKeeps == ASSUME ImagesInv, ImagesNext PROVE ImagesInv'
<1>1. ASSUME NEW u \in Users, Pin(u) \/ Pull(u) PROVE ImagesInv' BY <1>1, PinKeeps
<1>2. ASSUME NEW u \in Users, Push(u) PROVE ImagesInv' BY <1>2, PushKeeps
<1>3. ASSUME NEW u \in Users, Build(u) PROVE ImagesInv' BY <1>3, BuildKeeps
<1>4. ASSUME NEW u \in Users, PushImage(u) PROVE ImagesInv' BY <1>4, PushImageKeeps
<1>5. ASSUME NEW u \in Users, Clean(u) PROVE ImagesInv' BY <1>5, CleanKeeps
<1>6. ASSUME NEW u \in Users, List(u) PROVE ImagesInv' BY <1>6, ListKeeps
<1>7. ASSUME NEW u \in Users, Delete(u) PROVE ImagesInv' BY <1>7, DeleteKeeps
<1>8. ASSUME NEW u \in Users, CutShort(u) PROVE ImagesInv' BY <1>8, CutShortKeeps
<1> QED BY <1>1, <1>2, <1>3, <1>4, <1>5, <1>6, <1>7, <1>8 DEF ImagesNext

LEMMA ImagesStutterKeeps == ASSUME ImagesInv, UNCHANGED imagesVars PROVE ImagesInv'
<1>1. UNCHANGED <<builds, image, kept, pin, settled, doing, begun>> BY DEF imagesVars
<1> QED BY <1>1 DEF ImagesInv, RegistryType, PlansType, PushesOK, CleansOK, Crossed, SettledIsOneBuild

LEMMA ImagesInvAlways == ImagesSpec => []ImagesInv
<1>1. ImagesInit => ImagesInv BY ImagesInitHolds
<1>2. ImagesInv /\ [ImagesNext]_imagesVars => ImagesInv' BY ImagesNextKeeps, ImagesStutterKeeps
<1> QED BY <1>1, <1>2, PTL DEF ImagesSpec

(* A name whose last push came to its end alone stands for one build in    *)
(* every package, whatever was pushed, cut short or cleaned before and     *)
(* since, by however many at once (push_registry_images, run_cleanup).     *)
THEOREM SettledAlwaysOneBuild == ImagesSpec => []SettledIsOneBuild
<1>1. ImagesInv => SettledIsOneBuild BY DEF ImagesInv
<1> QED BY <1>1, ImagesInvAlways, PTL

(* Only a cleaning takes an image or a name.                               *)
LEMMA OthersTakeNothing ==
  ASSUME ImagesInv, ImagesNext, \A u \in Users : ~Delete(u)
  PROVE  \A r \in Roles : /\ kept[r] \subseteq kept'[r]
                          /\ \A n \in Names : image'[r][n] = 0 => image[r][n] = 0
<1>1. image \in [Roles -> [Names -> Nat]] /\ kept \in [Roles -> SUBSET (Nat \ {0})]
  BY DEF ImagesInv, RegistryType
<1>2. CASE UNCHANGED <<image, kept>> BY <1>2
<1>3. ASSUME NEW u \in Users, PushImage(u)
      PROVE  \A r \in Roles : kept[r] \subseteq kept'[r] /\ \A n \in Names : image'[r][n] = 0 => image[r][n] = 0
  <2>1. /\ image' = [image EXCEPT ![Role(u)][doing[u].name] = doing[u].build]
        /\ kept' = [kept EXCEPT ![Role(u)] = @ \cup {doing[u].build}] /\ Does(u, "push")
    BY <1>3 DEF PushImage, PushedTo
  <2>2. Role(u) \in Roles /\ doing[u].name \in Names /\ doing[u].build > 0 /\ doing[u].build \in Nat
    BY <2>1, PushingIs
  <2>3. PICK x \in Roles, m \in Names, new \in Nat \ {0} : x = Role(u) /\ m = doing[u].name /\ new = doing[u].build
    BY <2>2
  <2>4. image' = [image EXCEPT ![x] = [image[x] EXCEPT ![m] = new]] /\ kept' = [kept EXCEPT ![x] = kept[x] \cup {new}]
    BY <2>1, <2>3
  <2>5. \A r \in Roles, n \in Names : image'[r][n] \in {image[r][n], new} BY <1>1, <2>4
  <2>6. \A r \in Roles : kept[r] \subseteq kept'[r] BY <1>1, <2>4
  <2> QED BY <2>5, <2>6
<1>4. \A u \in Users : Pin(u) \/ Pull(u) => UNCHANGED <<image, kept>> BY DEF Pin, Pull, registry
<1>5. \A u \in Users : Push(u) \/ Clean(u) => UNCHANGED <<image, kept>> BY DEF Push, Clean, Begins, registry
<1>6. \A u \in Users : Build(u) \/ List(u) \/ CutShort(u) => UNCHANGED <<image, kept>>
  BY DEF Build, List, CutShort, registry
<1> QED BY <1>2, <1>3, <1>4, <1>5, <1>6 DEF ImagesNext

LEMMA KnownIsSpared ==
  ASSUME ImagesInv, NEW u \in Users, doing[u].kind = "clean", ~doing[u].raced
  PROVE  Known(doing[u]) \subseteq doing[u].spared /\ doing[u].spared \subseteq Names
<1>1. PlanHolds(doing[u], image, kept, pin) BY DEF ImagesInv, CleansOK
<1>2. doing[u].spared \subseteq Names BY DEF ImagesInv, PlansType, Doings
<1> QED BY <1>1, <1>2 DEF PlanHolds, Known

LEMMA CleaningLeaves == ASSUME ImagesInv, NEW u \in Users, Delete(u) PROVE KnownStay /\ NewestStay
<1>1. CASE UNCHANGED <<image, kept>> BY <1>1 DEF KnownStay, NewestStay
<1>2. CASE ~UNCHANGED <<image, kept>>
  <2>1. PICK r0 \in Roles, b0 \in Nat \ {0} :
          <<"image", r0, b0>> \in ToSet(doing[u].todo) /\ IsDeletion(image, image', kept, kept', r0, b0)
    BY <1>2, DeletionIs
  <2>2. doing[u].kind = "clean" BY DeletingIs DEF Delete
  <2>3. PlanHolds(doing[u], image, kept, pin) BY DEF ImagesInv, CleansOK
  <2>4. ~doing[u].raced => NamesIn(image, r0, b0) \cap doing[u].spared = {} /\ EnoughNewer(image, kept, r0, b0)
    BY <2>1, <2>2, <2>3 DEF PlanHolds
  <2>5. KnownStay
    <3> SUFFICES ASSUME NEW v \in Users, doing[v].kind = "clean", ~doing[v].raced, doing'[v] # doing[v],
                        NEW r \in Roles, NEW n \in Known(doing[v]), image[r][n] # 0, image'[r][n] = 0
                 PROVE  FALSE
      BY DEF KnownStay
    <3>1. v = u
      <4>1. doing \in [Users -> Doings] BY DEF ImagesInv, PlansType
      <4>2. \E d : doing' = [doing EXCEPT ![u] = d] BY DEF Delete, Goes
      <4> QED BY <4>1, <4>2
    <3>2. n \in doing[u].spared /\ n \in Names BY <3>1, KnownIsSpared
    <3>3. r = r0 /\ image[r][n] = b0 BY <2>1, <3>2 DEF IsDeletion
    <3>4. n \in NamesIn(image, r0, b0) BY <3>2, <3>3 DEF NamesIn
    <3> QED BY <2>4, <3>1, <3>2, <3>4
  <2>6. CASE Raced BY <2>5, <2>6 DEF NewestStay
  <2>7. CASE ~Raced
    <3> SUFFICES ASSUME NEW r \in Roles, NEW b \in kept[r] \ kept'[r], NamesOf(r, b) # {}
                 PROVE  Cardinality({d \in kept'[r] : d > b /\ NamesOf(r, d) # {}}) >= Keep
      BY <2>5 DEF NewestStay
    <3>1. r = r0 /\ b = b0 /\ kept'[r] = kept[r] \ {b0} BY <2>1 DEF IsDeletion
    <3>2. {d \in kept'[r] : d > b /\ NamesOf(r, d) # {}} = Newer(image, kept, r0, b0)
      BY <3>1 DEF Newer, NamesIn, NamesOf
    <3>3. NamesIn(image, r0, b0) # {} BY <3>1 DEF NamesIn, NamesOf
    <3>4. ~doing[u].raced BY <2>2, <2>7 DEF Raced
    <3> QED BY <2>4, <3>2, <3>3, <3>4 DEF EnoughNewer
  <2> QED BY <2>5, <2>6, <2>7
<1> QED BY <1>1, <1>2

(* However many commands run at once and whatever is pinned and pulled     *)
(* meanwhile, a cleaning that no push and no such cleaning crossed leaves  *)
(* what its user's checkout pinned when it began, if it could be read, and *)
(* of the images with a name the newest (collect_deploy_tags,              *)
(* plan_deletions, run_cleanup).                                           *)
THEOREM CleaningAlwaysSpares == ImagesSpec => CleaningSpares
<1>1. ImagesInv /\ [ImagesNext]_imagesVars => [KnownStay /\ NewestStay]_imagesVars
  <2> SUFFICES ASSUME ImagesInv, ImagesNext PROVE KnownStay /\ NewestStay OBVIOUS
  <2>1. CASE \E u \in Users : Delete(u) BY <2>1, CleaningLeaves
  <2>2. CASE \A u \in Users : ~Delete(u)
    <3>1. \A r \in Roles : /\ kept[r] \subseteq kept'[r]
                           /\ \A n \in Names : image'[r][n] = 0 => image[r][n] = 0
      BY <2>2, OthersTakeNothing
    <3> QED BY <3>1, KnownIsSpared DEF KnownStay, NewestStay
  <2> QED BY <2>1, <2>2
<1> QED BY <1>1, ImagesInvAlways, PTL DEF CleaningSpares, ImagesSpec

==============================================================================
