----------------------------- MODULE ReleaseProofs -----------------------------
(***************************************************************************)
(* Theorems about Release, for any clones, lines and bounds: the type, that*)
(* a release that can be seen is on main, and that a command that reports  *)
(* success has published what its user had.                                *)
(***************************************************************************)
EXTENDS Release, SequenceTheorems, TLAPS

----------------------------------------------------------------------------
(* What is left of a plan from its i-th call on; a plan has no call twice. *)

Calls == {"ask", "fetch", "look", "main", "pull", "merge", "tag", "pushmain", "pushline", "pushref",
          "lookline", "branch", "switch", "modules"}
Kinds == {"none", "final", "beta", "next"}
Rest(plan, i) == [j \in 1..(Len(plan) - i + 1) |-> plan[i + j - 1]]
IsPlan(plan, n) ==
    /\ n # 0 /\ plan \in Seq(Calls) /\ Len(plan) = n
    /\ \A i, j \in 1..n : plan[i] = plan[j] => i = j
Follows(w, plan, n) == \E i \in 1..n : cmd[w].todo = Rest(plan, i)
Succeeds(w) == Finish(w, TRUE)

----------------------------------------------------------------------------
(* The type invariant, in parts.                                           *)

HistOK ==
    /\ anc \in Seq(SUBSET Nat)
    /\ \A c \in Commits : c \in anc[c] /\ anc[c] \subseteq Commits
    /\ \A c \in Commits : \A p \in anc[c] : anc[p] \subseteq anc[c]
OriginOK == origin \in [Refs -> {0} \cup Commits] /\ origin[Main] # 0
LocalOK == local \in [Clones -> [Refs -> {0} \cup Commits]]
HeadOK ==
    /\ head \in [Clones -> Branches \cup ({"at"} \X Commits)]
    /\ \A w \in Clones :
        local[w][Main] # 0 /\ (head[w] \in Branches => local[w][head[w]] # 0)

CommandOK(w) ==
    LET c == cmd[w]
    IN  \/ c = Idle
        \/ c.kind = "final" /\ c.from \in DevLines /\ c.ref \in Finals /\ Follows(w, FinalPlan, 9)
        \/ c.kind = "beta" /\ c.from \in Branches /\ c.ref \in Betas /\ Follows(w, BetaPlan, 6)
        \/ c.kind = "next" /\ c.ref \in DevLines /\ Follows(w, NextPlan, 7)
CmdOK ==
    /\ cmd \in [Clones -> [kind : Kinds, todo : Seq(Calls), from : Branches \cup {<<>>},
                           ref : Refs \cup {<<>>}, tip : {0} \cup Commits]]
    /\ \A w \in Clones : CommandOK(w)

(* A new branch is there once it is made, and what is written to has been  *)
(* checked out.                                                            *)
PlaceOK ==
    \A w \in Clones :
        /\ Does(w, "switch") => local[w][cmd[w].ref] # 0
        /\ Does(w, "modules") => head[w] \in Branches
        /\ Does(w, "pull") \/ Does(w, "merge") => head[w] = Main
OutcomeOK ==
    /\ outcome \in [Clones -> [kind : Kinds, ok : BOOLEAN, from : Branches \cup {<<>>},
                               ref : Refs \cup {<<>>}, tip : {0} \cup Commits]]
    /\ \A w \in Clones : outcome[w].ok =>
        /\ outcome[w].kind = "final" => outcome[w].ref \in Finals
        /\ outcome[w].kind = "beta" => outcome[w].ref \in Betas /\ outcome[w].from \in Branches

HistoryGrows == Len(anc) <= Len(anc') /\ \A c \in Commits : anc'[c] = anc[c]
TypeInv == HistOK /\ OriginOK /\ LocalOK /\ HeadOK /\ CmdOK /\ PlaceOK /\ OutcomeOK

----------------------------------------------------------------------------
(* A final release, from the merge on.                                     *)
FinalIsMain(w) ==
    cmd[w].kind = "final" =>
        /\ Does(w, "tag") => head[w] = Main
        /\ Does(w, "pushmain") => local[w][cmd[w].ref] = local[w][Main]
        /\ Does(w, "pushref") => local[w][cmd[w].ref] # 0 /\ Holds(origin[Main], local[w][cmd[w].ref])
MainInv == ReleasesAreOnMain /\ \A w \in Clones : FinalIsMain(w)

(* What a command has of the line it was given, when its user waits.       *)
FinalHasLine(w) ==
    LET c == cmd[w]
    IN  c.kind = "final" =>
            /\ c.tip # 0
            /\ \A step \in {"ask", "fetch", "look", "main", "pull", "merge"} :
                Does(w, step) => local[w][c.from] = c.tip
            /\ Does(w, "tag") => Holds(local[w][Main], c.tip)
            /\ Does(w, "pushmain") \/ Does(w, "pushref") =>
                local[w][c.ref] # 0 /\ Holds(local[w][c.ref], c.tip)
BetaHasLine(w) ==
    LET c == cmd[w]
    IN  c.kind = "beta" =>
            /\ head[w] = c.from
            /\ Does(w, "pushline") => local[w][c.ref] = local[w][c.from]
            /\ Does(w, "pushref") => 
                /\ local[w][c.ref] # 0 /\ origin[c.from] # 0
                /\ Holds(origin[c.from], local[w][c.ref])
Published(w) ==
    LET o == outcome[w]
    IN  /\ o.ok /\ o.kind = "final" => o.tip # 0 /\ origin[o.ref] # 0 /\ Holds(origin[o.ref], o.tip)
        /\ o.ok /\ o.kind = "beta" =>
            origin[o.from] # 0 /\ origin[o.ref] # 0 /\ Holds(origin[o.from], origin[o.ref])
LineInv == \A w \in Clones : FinalHasLine(w) /\ BetaHasLine(w) /\ Published(w)
----------------------------------------------------------------------------
(* Plans, and how a command goes through one.                              *)

LEMMA PlansArePlans ==
  /\ IsPlan(FinalPlan, 9)
  /\ IsPlan(BetaPlan, 6)
  /\ IsPlan(NextPlan, 7)
<1>1. IsPlan(FinalPlan, 9)
  <2>1. FinalPlan \in Seq(Calls) BY DEF FinalPlan, Calls
  <2>2. Len(FinalPlan) = 9 BY DEF FinalPlan
  <2>3. /\ FinalPlan[1] = "ask"
        /\ FinalPlan[2] = "fetch"
        /\ FinalPlan[3] = "look"
        /\ FinalPlan[4] = "main"
        /\ FinalPlan[5] = "pull"
        /\ FinalPlan[6] = "merge"
        /\ FinalPlan[7] = "tag"
        /\ FinalPlan[8] = "pushmain"
        /\ FinalPlan[9] = "pushref"
    BY DEF FinalPlan
  <2>5. ASSUME NEW i \in 1..9, NEW j \in 1..9, i < j PROVE FinalPlan[i] # FinalPlan[j]
    BY <2>3, <2>5
  <2> QED BY <2>1, <2>2, <2>5 DEF IsPlan
<1>2. IsPlan(BetaPlan, 6)
  <2>1. BetaPlan \in Seq(Calls) BY DEF BetaPlan, Calls
  <2>2. Len(BetaPlan) = 6 BY DEF BetaPlan
  <2>3. /\ BetaPlan[1] = "ask"
        /\ BetaPlan[2] = "fetch"
        /\ BetaPlan[3] = "look"
        /\ BetaPlan[4] = "tag"
        /\ BetaPlan[5] = "pushline"
        /\ BetaPlan[6] = "pushref"
    BY DEF BetaPlan
  <2>5. ASSUME NEW i \in 1..6, NEW j \in 1..6, i < j PROVE BetaPlan[i] # BetaPlan[j]
    BY <2>3, <2>5
  <2> QED BY <2>1, <2>2, <2>5 DEF IsPlan
<1>3. IsPlan(NextPlan, 7)
  <2>1. NextPlan \in Seq(Calls) BY DEF NextPlan, Calls
  <2>2. Len(NextPlan) = 7 BY DEF NextPlan
  <2>3. /\ NextPlan[1] = "ask"
        /\ NextPlan[2] = "fetch"
        /\ NextPlan[3] = "lookline"
        /\ NextPlan[4] = "branch"
        /\ NextPlan[5] = "switch"
        /\ NextPlan[6] = "modules"
        /\ NextPlan[7] = "pushref"
    BY DEF NextPlan
  <2>5. ASSUME NEW i \in 1..7, NEW j \in 1..7, i < j PROVE NextPlan[i] # NextPlan[j]
    BY <2>3, <2>5
  <2> QED BY <2>1, <2>2, <2>5 DEF IsPlan
<1> QED BY <1>1, <1>2, <1>3

LEMMA RestIs ==
  ASSUME NEW plan, NEW n \in Nat, IsPlan(plan, n), NEW i \in 1..n
  PROVE  /\ Rest(plan, i) \in Seq(Calls) /\ Rest(plan, i) # <<>>
         /\ Len(Rest(plan, i)) = n - i + 1
         /\ Rest(plan, i)[1] = plan[i]
<1> DEFINE r == Rest(plan, i)
<1>1. Len(plan) = n /\ plan \in [1..n -> Calls] BY DEF IsPlan
<1>2. r \in Seq(Calls) /\ Len(r) = n - i + 1 BY <1>1 DEF Rest
<1>3. r # <<>> /\ r[1] = plan[i] BY <1>1, <1>2 DEF Rest
<1> QED BY <1>2, <1>3

LEMMA RestOfRest ==
  ASSUME NEW plan, NEW n \in Nat, IsPlan(plan, n), NEW i \in 1..n, i < n
  PROVE  Tail(Rest(plan, i)) = Rest(plan, i + 1)
<1> DEFINE r == Rest(plan, i)  s == Tail(r)  t == Rest(plan, i + 1)
<1>1. Len(plan) = n /\ plan \in [1..n -> Calls] BY DEF IsPlan
<1>2. r \in Seq(Calls) /\ Len(r) = n - i + 1 /\ r # <<>> BY RestIs
<1>3. s \in Seq(Calls) /\ Len(s) = n - i BY <1>2
<1>4. t \in Seq(Calls) /\ Len(t) = n - i BY <1>1 DEF Rest
<1>5. \A j \in 1..(n - i) : s[j] = r[j + 1] BY <1>2
<1>6. \A j \in 1..(n - i) : r[j + 1] = plan[i + j] BY <1>1 DEF Rest
<1>7. \A j \in 1..(n - i) : t[j] = plan[i + j] BY <1>1 DEF Rest
<1>8. \A j \in 1..Len(s) : s[j] = t[j] BY <1>3, <1>5, <1>6, <1>7
<1> HIDE DEF s, t
<1>9. s = t BY <1>3, <1>4, <1>8, SeqEqual
<1> QED BY <1>9 DEF s, t

LEMMA RestIsWhole ==
  ASSUME NEW plan, NEW n \in Nat, IsPlan(plan, n) PROVE Rest(plan, 1) = plan /\ 1 \in 1..n
<1>1. Len(plan) = n /\ n # 0 /\ plan \in [1..n -> Calls] BY DEF IsPlan
<1> QED BY <1>1 DEF Rest

LEMMA LastSucceeds == ASSUME NEW w, Goes(w), Len(cmd[w].todo) = 1 PROVE Succeeds(w)
  BY DEF Goes, Succeeds
LEMMA OthersGoOn ==
  ASSUME NEW w, Goes(w), Len(cmd[w].todo) # 1
  PROVE  cmd' = [cmd EXCEPT ![w].todo = Tail(@)] /\ outcome' = outcome
  BY DEF Goes

(* The call after the i-th is the next of the plan; the last ends it.      *)
LEMMA GoesOn ==
  ASSUME CmdOK, NEW w \in Clones, NEW plan, NEW n \in Nat, IsPlan(plan, n), Follows(w, plan, n), Goes(w),
         NEW i \in 1..n, Does(w, plan[i])
  PROVE  /\ i = n => Succeeds(w)
         /\ i < n =>
                /\ outcome' = outcome
                /\ \E t \in Seq(Calls) : cmd' = [cmd EXCEPT ![w].todo = t]
                /\ Follows(w, plan, n)' /\ cmd'[w].todo # <<>> /\ cmd'[w].todo[1] = plan[i + 1]
<1>1. PICK k \in 1..n : cmd[w].todo = Rest(plan, k) BY DEF Follows
<1>2. plan[k] = plan[i] BY <1>1, RestIs DEF Does
<1>3. k = i BY <1>2 DEF IsPlan
<1>4. i = n => Succeeds(w)
  <2>1. Len(Rest(plan, k)) = n - k + 1 BY RestIs
  <2>2. i = n => Len(cmd[w].todo) = 1 BY <1>1, <1>3, <2>1
  <2> QED BY <2>2, LastSucceeds
<1>5. ASSUME i < n
      PROVE  /\ outcome' = outcome
             /\ \E t \in Seq(Calls) : cmd' = [cmd EXCEPT ![w].todo = t]
             /\ Follows(w, plan, n)' /\ cmd'[w].todo # <<>> /\ cmd'[w].todo[1] = plan[i + 1]
  <2>1. i + 1 \in 1..n BY <1>5
  <2>2. Len(cmd[w].todo) # 1 BY <1>1, <1>3, <1>5, RestIs
  <2>3. Tail(cmd[w].todo) = Rest(plan, i + 1) BY <1>1, <1>3, <1>5, RestOfRest
  <2>4. outcome' = outcome /\ cmd' = [cmd EXCEPT ![w].todo = Rest(plan, i + 1)]
    BY <2>2, <2>3, OthersGoOn
  <2>5. cmd'[w].todo = Rest(plan, i + 1) BY <2>4 DEF CmdOK
  <2>6. Follows(w, plan, n)' BY <2>1, <2>5 DEF Follows
  <2>7. Rest(plan, i + 1) \in Seq(Calls) /\ Rest(plan, i + 1) # <<>> /\ Rest(plan, i + 1)[1] = plan[i + 1]
    BY <2>1, RestIs
  <2> QED BY <2>4, <2>5, <2>6, <2>7
<1> QED BY <1>4, <1>5

(* What the calls of a kind go on to.                                      *)
LEMMA FinalGoes ==
  ASSUME CmdOK, NEW w \in Clones, cmd[w].kind = "final", NEW step, Does(w, step), Goes(w)
  PROVE  \/ step = "pushref" /\ Succeeds(w)
         \/ /\ <<step, cmd'[w].todo[1]>> \in
                 {<<"ask", "fetch">>, <<"fetch", "look">>, <<"look", "main">>, <<"main", "pull">>,
                  <<"pull", "merge">>, <<"merge", "tag">>, <<"tag", "pushmain">>, <<"pushmain", "pushref">>}
            /\ outcome' = outcome /\ Follows(w, FinalPlan, 9)' /\ cmd'[w].todo # <<>>
            /\ \E t \in Seq(Calls) : cmd' = [cmd EXCEPT ![w].todo = t]
<1>1. Follows(w, FinalPlan, 9) BY DEF CmdOK, CommandOK, Idle
<1>2. IsPlan(FinalPlan, 9) BY PlansArePlans
<1>3. PICK i \in 1..9 : FinalPlan[i] = step /\ Does(w, FinalPlan[i])
  <2>1. PICK i \in 1..9 : cmd[w].todo = Rest(FinalPlan, i) BY <1>1 DEF Follows
  <2>2. Rest(FinalPlan, i)[1] = FinalPlan[i] BY <1>2, RestIs
  <2> QED BY <2>1, <2>2 DEF Does
<1>4. CASE i = 9
  <2>1. Succeeds(w) BY <1>1, <1>2, <1>3, <1>4, GoesOn, 9 \in Nat
  <2>2. step = "pushref" BY <1>3, <1>4 DEF FinalPlan
  <2> QED BY <2>1, <2>2
<1>5. CASE i < 9
  <2>1. /\ outcome' = outcome
        /\ \E t \in Seq(Calls) : cmd' = [cmd EXCEPT ![w].todo = t]
        /\ Follows(w, FinalPlan, 9)' /\ cmd'[w].todo # <<>> /\ cmd'[w].todo[1] = FinalPlan[i + 1]
    BY <1>1, <1>2, <1>3, <1>5, GoesOn, 9 \in Nat
  <2>2. <<step, FinalPlan[i + 1]>> \in
                 {<<"ask", "fetch">>, <<"fetch", "look">>, <<"look", "main">>, <<"main", "pull">>,
                  <<"pull", "merge">>, <<"merge", "tag">>, <<"tag", "pushmain">>, <<"pushmain", "pushref">>}
    BY <1>3, <1>5 DEF FinalPlan
  <2> QED BY <2>1, <2>2
<1> QED BY <1>4, <1>5

LEMMA BetaGoes ==
  ASSUME CmdOK, NEW w \in Clones, cmd[w].kind = "beta", NEW step, Does(w, step), Goes(w)
  PROVE  \/ step = "pushref" /\ Succeeds(w)
         \/ /\ <<step, cmd'[w].todo[1]>> \in
                 {<<"ask", "fetch">>, <<"fetch", "look">>, <<"look", "tag">>, <<"tag", "pushline">>,
                  <<"pushline", "pushref">>}
            /\ outcome' = outcome /\ Follows(w, BetaPlan, 6)' /\ cmd'[w].todo # <<>>
            /\ \E t \in Seq(Calls) : cmd' = [cmd EXCEPT ![w].todo = t]
<1>1. Follows(w, BetaPlan, 6) BY DEF CmdOK, CommandOK, Idle
<1>2. IsPlan(BetaPlan, 6) BY PlansArePlans
<1>3. PICK i \in 1..6 : BetaPlan[i] = step /\ Does(w, BetaPlan[i])
  <2>1. PICK i \in 1..6 : cmd[w].todo = Rest(BetaPlan, i) BY <1>1 DEF Follows
  <2>2. Rest(BetaPlan, i)[1] = BetaPlan[i] BY <1>2, RestIs
  <2> QED BY <2>1, <2>2 DEF Does
<1>4. CASE i = 6
  <2>1. Succeeds(w) BY <1>1, <1>2, <1>3, <1>4, GoesOn, 6 \in Nat
  <2>2. step = "pushref" BY <1>3, <1>4 DEF BetaPlan
  <2> QED BY <2>1, <2>2
<1>5. CASE i < 6
  <2>1. /\ outcome' = outcome
        /\ \E t \in Seq(Calls) : cmd' = [cmd EXCEPT ![w].todo = t]
        /\ Follows(w, BetaPlan, 6)' /\ cmd'[w].todo # <<>> /\ cmd'[w].todo[1] = BetaPlan[i + 1]
    BY <1>1, <1>2, <1>3, <1>5, GoesOn, 6 \in Nat
  <2>2. <<step, BetaPlan[i + 1]>> \in
                 {<<"ask", "fetch">>, <<"fetch", "look">>, <<"look", "tag">>, <<"tag", "pushline">>,
                  <<"pushline", "pushref">>}
    BY <1>3, <1>5 DEF BetaPlan
  <2> QED BY <2>1, <2>2
<1> QED BY <1>4, <1>5

LEMMA NextGoes ==
  ASSUME CmdOK, NEW w \in Clones, cmd[w].kind = "next", NEW step, Does(w, step), Goes(w)
  PROVE  \/ step = "pushref" /\ Succeeds(w)
         \/ /\ <<step, cmd'[w].todo[1]>> \in
                 {<<"ask", "fetch">>, <<"fetch", "lookline">>, <<"lookline", "branch">>, <<"branch", "switch">>,
                  <<"switch", "modules">>, <<"modules", "pushref">>}
            /\ outcome' = outcome /\ Follows(w, NextPlan, 7)' /\ cmd'[w].todo # <<>>
            /\ \E t \in Seq(Calls) : cmd' = [cmd EXCEPT ![w].todo = t]
<1>1. Follows(w, NextPlan, 7) BY DEF CmdOK, CommandOK, Idle
<1>2. IsPlan(NextPlan, 7) BY PlansArePlans
<1>3. PICK i \in 1..7 : NextPlan[i] = step /\ Does(w, NextPlan[i])
  <2>1. PICK i \in 1..7 : cmd[w].todo = Rest(NextPlan, i) BY <1>1 DEF Follows
  <2>2. Rest(NextPlan, i)[1] = NextPlan[i] BY <1>2, RestIs
  <2> QED BY <2>1, <2>2 DEF Does
<1>4. CASE i = 7
  <2>1. Succeeds(w) BY <1>1, <1>2, <1>3, <1>4, GoesOn, 7 \in Nat
  <2>2. step = "pushref" BY <1>3, <1>4 DEF NextPlan
  <2> QED BY <2>1, <2>2
<1>5. CASE i < 7
  <2>1. /\ outcome' = outcome
        /\ \E t \in Seq(Calls) : cmd' = [cmd EXCEPT ![w].todo = t]
        /\ Follows(w, NextPlan, 7)' /\ cmd'[w].todo # <<>> /\ cmd'[w].todo[1] = NextPlan[i + 1]
    BY <1>1, <1>2, <1>3, <1>5, GoesOn, 7 \in Nat
  <2>2. <<step, NextPlan[i + 1]>> \in
                 {<<"ask", "fetch">>, <<"fetch", "lookline">>, <<"lookline", "branch">>, <<"branch", "switch">>,
                  <<"switch", "modules">>, <<"modules", "pushref">>}
    BY <1>3, <1>5 DEF NextPlan
  <2> QED BY <2>1, <2>2
<1> QED BY <1>4, <1>5

----------------------------------------------------------------------------
(* Refs and histories.                                                     *)

LEMMA RefsApart ==
  /\ Main \notin DevLines \cup Tags /\ DevLines \cap Tags = {} /\ Finals \cap Betas = {}
  /\ Main \in Branches /\ DevLines \subseteq Branches /\ Branches \subseteq Refs
  /\ Finals \subseteq Tags /\ Betas \subseteq Tags /\ Tags \subseteq Refs /\ Branches \cap Tags = {}
  /\ \A r \in Branches, c \in Nat : r # <<"at", c>>
  /\ <<>> \notin Refs
<1>1. Main[1] = "main" BY DEF Main
<1>2. \A r \in DevLines : r[1] = "dev" BY DEF DevLines, Dev
<1>3. \A r \in Finals : r[1] = "v" BY DEF Finals, Tag
<1>4. \A r \in Betas : r[1] = "beta" BY DEF Betas, Beta
<1>5. \A c \in Nat : <<"at", c>>[1] = "at" OBVIOUS
<1>6. Main # <<>> BY DEF Main
<1>7. \A r \in DevLines : r # <<>> BY DEF DevLines, Dev
<1>8. \A r \in Finals : r # <<>> BY DEF Finals, Tag
<1>9. \A r \in Betas : r # <<>> BY DEF Betas, Beta
<1>10. Main \notin DevLines \cup Tags BY <1>1, <1>2, <1>3, <1>4 DEF Tags
<1>11. DevLines \cap Tags = {} /\ Finals \cap Betas = {} BY <1>2, <1>3, <1>4 DEF Tags
<1>12. \A r \in Branches, c \in Nat : r # <<"at", c>> BY <1>1, <1>2, <1>5 DEF Branches
<1> QED BY <1>6, <1>7, <1>8, <1>9, <1>10, <1>11, <1>12 DEF Refs, Branches, Tags

LEMMA CommitsGrow == ASSUME HistOK, HistOK', HistoryGrows PROVE Commits \subseteq Commits'
  BY DEF HistOK, HistoryGrows, Commits

LEMMA HoldsItself == ASSUME HistOK, NEW c \in Commits PROVE Holds(c, c) BY DEF HistOK, Holds
LEMMA HoldsOfHeld ==
  ASSUME HistOK, NEW a \in Commits, NEW b \in Commits, NEW c, Holds(a, b), Holds(b, c)
  PROVE  Holds(a, c)
<1>1. b # 0 BY DEF Commits, HistOK
<1> QED BY <1>1 DEF HistOK, Holds
LEMMA HoldsStays ==
  ASSUME HistOK, HistoryGrows, NEW a \in Commits, NEW b, Holds(a, b) PROVE Holds(a, b)'
  BY DEF HistoryGrows, Holds

(* A new commit holds its parents and what they hold.                      *)
LEMMA NewCommitKeeps ==
  ASSUME HistOK, NEW parents \in SUBSET Commits, NewCommit(parents)
  PROVE  /\ HistOK' /\ HistoryGrows /\ Len(anc) + 1 \in Commits'
         /\ \A p \in parents : p \in anc'[Len(anc) + 1]
<1> DEFINE n == Len(anc)  s == {n + 1} \cup UNION {anc[p] : p \in parents}
<1>1. anc' = Append(anc, s) BY DEF NewCommit
<1>2. n \in Nat /\ anc \in [1..n -> SUBSET Nat] BY DEF HistOK
<1>3. \A p \in parents : p \in Commits OBVIOUS
<1>4. s \subseteq 1..(n + 1) BY <1>2, <1>3 DEF HistOK, Commits
<1>5. n + 1 \in s /\ \A p \in parents : p \in s /\ anc[p] \subseteq s BY DEF HistOK, Commits
<1>6. \A q \in s : q = n + 1 \/ \E p \in parents : q \in anc[p] OBVIOUS
<1> HIDE DEF s
<1>7. s \in SUBSET Nat BY <1>2, <1>4
<1>8. anc' \in Seq(SUBSET Nat) /\ Len(anc') = n + 1 BY <1>1, <1>2, <1>7 DEF HistOK
<1>9. \A c \in 1..n : anc'[c] = anc[c] BY <1>1, <1>2, <1>7 DEF HistOK
<1>10. anc'[n + 1] = s BY <1>1, <1>2, <1>7 DEF HistOK
<1>11. HistoryGrows BY <1>2, <1>8, <1>9 DEF HistoryGrows, Commits
<1>12. \A c \in Commits' : c \in anc'[c] /\ anc'[c] \subseteq Commits'
  BY <1>2, <1>4, <1>5, <1>8, <1>9, <1>10 DEF HistOK, Commits
<1>13. ASSUME NEW c \in Commits', NEW q \in anc'[c] PROVE anc'[q] \subseteq anc'[c]
  <2>1. CASE c \in 1..n
    <3>1. q \in anc[c] /\ q \in 1..n BY <1>9, <1>13, <2>1 DEF HistOK, Commits
    <3> QED BY <1>9, <2>1, <3>1 DEF HistOK, Commits
  <2>2. CASE c = n + 1 /\ q = n + 1 BY <2>2
  <2>3. CASE c = n + 1 /\ q # n + 1
    <3>1. PICK p \in parents : q \in anc[p] BY <1>6, <1>10, <1>13, <2>3
    <3>2. p \in 1..n /\ q \in 1..n BY <3>1 DEF HistOK, Commits
    <3>3. anc[q] \subseteq anc[p] BY <3>1, <3>2 DEF HistOK, Commits
    <3> QED BY <1>5, <1>9, <1>10, <2>3, <3>1, <3>2, <3>3
  <2> QED BY <1>2, <1>8, <2>1, <2>2, <2>3 DEF Commits
<1>14. HistOK' BY <1>8, <1>12, <1>13 DEF HistOK
<1>15. n + 1 \in Commits' BY <1>2, <1>8 DEF Commits
<1>16. \A p \in parents : p \in anc'[n + 1] BY <1>5, <1>10
<1> QED BY <1>11, <1>14, <1>15, <1>16

LEMMA SameHistory == ASSUME HistOK, UNCHANGED anc PROVE HistOK' /\ HistoryGrows
<1>1. Commits' = Commits BY DEF Commits
<1> QED BY <1>1 DEF HistOK, HistoryGrows

(* What a clone is on is a commit.                                         *)
LEMMA AtIsCommit ==
  ASSUME HistOK, LocalOK, HeadOK, NEW w \in Clones PROVE At(w) \in Commits
<1>1. CASE head[w] \in Branches
  <2>1. local[w][head[w]] \in {0} \cup Commits BY <1>1, RefsApart DEF LocalOK
  <2> QED BY <1>1, <2>1 DEF HeadOK, At
<1>2. CASE head[w] \notin Branches
  <2>1. PICK c \in Commits : head[w] = <<"at", c>> BY <1>2 DEF HeadOK
  <2> QED BY <1>2, <2>1 DEF At
<1> QED BY <1>1, <1>2

LEMMA ZeroIsNone == ASSUME HistOK PROVE 0 \notin Commits BY DEF HistOK, Commits
----------------------------------------------------------------------------
(* How a command's record and its outcome change.                          *)

LEMMA FinishKeeps ==
  ASSUME HistOK, HistOK', HistoryGrows, CmdOK, OutcomeOK, NEW w \in Clones, NEW ok \in BOOLEAN, Finish(w, ok)
  PROVE  CmdOK' /\ OutcomeOK' /\ cmd'[w] = Idle
<1>1. Commits \subseteq Commits' BY CommitsGrow
<1>2. Idle \in [kind : Kinds, todo : Seq(Calls), from : Branches \cup {<<>>}, ref : Refs \cup {<<>>}, tip : {0} \cup Commits']
  BY DEF Idle, Kinds
<1>3. \A v \in Clones :
        cmd[v] \in [kind : Kinds, todo : Seq(Calls), from : Branches \cup {<<>>}, ref : Refs \cup {<<>>}, tip : {0} \cup Commits']
  BY <1>1 DEF CmdOK
<1>4. cmd' = [cmd EXCEPT ![w] = Idle] BY DEF Finish
<1>5. cmd'[w] = Idle /\ \A v \in Clones \ {w} : cmd'[v] = cmd[v] BY <1>4 DEF CmdOK
<1>6. CmdOK'
  <2>1. \A v \in Clones : CommandOK(v)' BY <1>5 DEF CmdOK, CommandOK, Follows
  <2>2. cmd' \in [Clones -> [kind : Kinds, todo : Seq(Calls), from : Branches \cup {<<>>},
                             ref : Refs \cup {<<>>}, tip : {0} \cup Commits']]
    BY <1>2, <1>3, <1>4 DEF CmdOK
  <2> QED BY <2>1, <2>2 DEF CmdOK
<1>7. OutcomeOK'
  <2> DEFINE o == [kind |-> cmd[w].kind, ok |-> ok, from |-> cmd[w].from, ref |-> cmd[w].ref, tip |-> cmd[w].tip]
             Outcomes == [kind : Kinds, ok : BOOLEAN, from : Branches \cup {<<>>}, ref : Refs \cup {<<>>}, tip : {0} \cup Commits']
  <2>1. o \in Outcomes BY <1>3
  <2>2. \A v \in Clones : outcome[v] \in Outcomes BY <1>1 DEF OutcomeOK
  <2>3. o.kind = cmd[w].kind /\ o.ref = cmd[w].ref /\ o.from = cmd[w].from OBVIOUS
  <2>4. CommandOK(w) BY DEF CmdOK
  <2>5. /\ o.kind = "final" => o.ref \in Finals
        /\ o.kind = "beta" => o.ref \in Betas /\ o.from \in Branches
    BY <2>3, <2>4 DEF CommandOK, Idle
  <2>6. outcome' = [outcome EXCEPT ![w] = o] BY DEF Finish
  <2> HIDE DEF o
  <2>7. outcome' \in [Clones -> Outcomes] BY <2>1, <2>2, <2>6 DEF OutcomeOK
  <2>8. outcome'[w] = o /\ \A v \in Clones \ {w} : outcome'[v] = outcome[v] BY <2>6 DEF OutcomeOK
  <2>9. \A v \in Clones : outcome'[v].ok =>
          /\ outcome'[v].kind = "final" => outcome'[v].ref \in Finals
          /\ outcome'[v].kind = "beta" => outcome'[v].ref \in Betas /\ outcome'[v].from \in Branches
    BY <2>5, <2>8 DEF OutcomeOK
  <2> QED BY <2>7, <2>9 DEF OutcomeOK
<1> QED BY <1>5, <1>6, <1>7

LEMMA TodoKeeps ==
  ASSUME HistOK, HistOK', HistoryGrows, CmdOK, OutcomeOK, NEW w \in Clones, NEW t \in Seq(Calls),
         cmd' = [cmd EXCEPT ![w].todo = t], outcome' = outcome, cmd[w] # Idle,
         cmd[w].kind = "final" => Follows(w, FinalPlan, 9)',
         cmd[w].kind = "beta" => Follows(w, BetaPlan, 6)',
         cmd[w].kind = "next" => Follows(w, NextPlan, 7)'
  PROVE  CmdOK' /\ OutcomeOK'
<1>1. Commits \subseteq Commits' BY CommitsGrow
<1> DEFINE Cmds == [kind : Kinds, todo : Seq(Calls), from : Branches \cup {<<>>},
                    ref : Refs \cup {<<>>}, tip : {0} \cup Commits']
<1>2. cmd \in [Clones -> Cmds] BY <1>1 DEF CmdOK
<1> HIDE DEF Cmds
<1>3. [cmd[w] EXCEPT !.todo = t] \in Cmds BY <1>2 DEF Cmds
<1>4. cmd' \in [Clones -> Cmds] BY <1>2, <1>3
<1>5. \A v \in Clones \ {w} : cmd'[v] = cmd[v] BY <1>2
<1>6. cmd'[w] = [cmd[w] EXCEPT !.todo = t] BY <1>2
<1>7. cmd'[w].kind = cmd[w].kind /\ cmd'[w].from = cmd[w].from /\ cmd'[w].ref = cmd[w].ref
  BY <1>2, <1>6 DEF Cmds
<1>8. \A v \in Clones \ {w} : CommandOK(v)' BY <1>5 DEF CmdOK, CommandOK, Follows
<1>9. CommandOK(w)'
  <2>1. CommandOK(w) BY DEF CmdOK
  <2> QED BY <1>7, <2>1 DEF CommandOK
<1>10. CmdOK' BY <1>4, <1>8, <1>9 DEF CmdOK, Cmds
<1>11. OutcomeOK' BY <1>1 DEF OutcomeOK
<1> QED BY <1>10, <1>11

(* A call that is done, and where the command is then.                     *)
LEMMA GoesKeeps ==
  ASSUME HistOK, HistOK', HistoryGrows, CmdOK, OutcomeOK, NEW w \in Clones, NEW step, Does(w, step), Goes(w)
  PROVE  /\ CmdOK' /\ OutcomeOK'
         /\ step # "branch" => ~Does(w, "switch")'
         /\ step # "switch" => ~Does(w, "modules")'
         /\ step # "main" => ~Does(w, "pull")'
         /\ step # "pull" => ~Does(w, "merge")'
         /\ step = "branch" => cmd'[w].ref = cmd[w].ref /\ cmd[w].ref \in DevLines
         /\ step = "switch" => cmd[w].ref \in DevLines
<1>1. cmd[w] # Idle BY DEF Does, Idle
<1>2. cmd[w].kind \in {"final", "beta", "next"} BY <1>1 DEF CmdOK, CommandOK
<1>3. Idle.todo = <<>> BY DEF Idle
<1>4. CASE Succeeds(w) /\ step = "pushref"
  <2>1. CmdOK' /\ OutcomeOK' /\ cmd'[w] = Idle BY <1>4, FinishKeeps DEF Succeeds
  <2> QED BY <1>3, <1>4, <2>1 DEF Does
<1>5. CASE /\ <<step, cmd'[w].todo[1]>> \in
                {<<"ask", "fetch">>, <<"fetch", "look">>, <<"look", "main">>, <<"main", "pull">>,
                 <<"pull", "merge">>, <<"merge", "tag">>, <<"tag", "pushmain">>, <<"pushmain", "pushref">>}
           /\ cmd[w].kind = "final" /\ outcome' = outcome /\ Follows(w, FinalPlan, 9)'
           /\ \E t \in Seq(Calls) : cmd' = [cmd EXCEPT ![w].todo = t]
  <2>1. CmdOK' /\ OutcomeOK' BY <1>1, <1>5, TodoKeeps
  <2>2. /\ step \notin {"branch", "switch"} /\ cmd'[w].todo[1] \notin {"switch", "modules"}
        /\ step # "main" => cmd'[w].todo[1] # "pull"
        /\ step # "pull" => cmd'[w].todo[1] # "merge"
    BY <1>5
  <2> QED BY <2>1, <2>2 DEF Does
<1>6. CASE /\ <<step, cmd'[w].todo[1]>> \in
                {<<"ask", "fetch">>, <<"fetch", "look">>, <<"look", "tag">>, <<"tag", "pushline">>,
                 <<"pushline", "pushref">>}
           /\ cmd[w].kind = "beta" /\ outcome' = outcome /\ Follows(w, BetaPlan, 6)'
           /\ \E t \in Seq(Calls) : cmd' = [cmd EXCEPT ![w].todo = t]
  <2>1. CmdOK' /\ OutcomeOK' BY <1>1, <1>6, TodoKeeps
  <2>2. step \notin {"branch", "switch"} /\ cmd'[w].todo[1] \notin {"switch", "modules", "pull", "merge"}
    BY <1>6
  <2> QED BY <2>1, <2>2 DEF Does
<1>7. CASE /\ <<step, cmd'[w].todo[1]>> \in
                {<<"ask", "fetch">>, <<"fetch", "lookline">>, <<"lookline", "branch">>, <<"branch", "switch">>,
                 <<"switch", "modules">>, <<"modules", "pushref">>}
           /\ cmd[w].kind = "next" /\ outcome' = outcome /\ Follows(w, NextPlan, 7)'
           /\ \E t \in Seq(Calls) : cmd' = [cmd EXCEPT ![w].todo = t]
  <2>1. CmdOK' /\ OutcomeOK' BY <1>1, <1>7, TodoKeeps
  <2>2. /\ step # "branch" => cmd'[w].todo[1] # "switch"
        /\ step # "switch" => cmd'[w].todo[1] # "modules"
        /\ cmd'[w].todo[1] \notin {"pull", "merge"}
    BY <1>7
  <2>3. cmd[w].ref \in DevLines BY <1>1, <1>7 DEF CmdOK, CommandOK
  <2>4. PICK t \in Seq(Calls) : cmd' = [cmd EXCEPT ![w].todo = t] BY <1>7
  <2>5. cmd'[w].ref = cmd[w].ref BY <2>4 DEF CmdOK
  <2> QED BY <2>1, <2>2, <2>3, <2>5 DEF Does
<1>8. cmd[w].kind = "final" => <1>4!1 \/ <1>5!1 BY FinalGoes
<1>9. cmd[w].kind = "beta" => <1>4!1 \/ <1>6!1 BY BetaGoes
<1>10. cmd[w].kind = "next" => <1>4!1 \/ <1>7!1 BY NextGoes
<1> QED BY <1>2, <1>4, <1>5, <1>6, <1>7, <1>8, <1>9, <1>10

(* Whose calls they are.                                                   *)
LEMMA KindOfStep ==
  ASSUME CmdOK, NEW w \in Clones, NEW step, Does(w, step)
  PROVE  /\ cmd[w] # Idle /\ cmd[w].kind \in {"final", "beta", "next"}
         /\ cmd[w].kind = "final" => cmd[w].from \in DevLines /\ cmd[w].ref \in Finals
         /\ cmd[w].kind = "beta" => cmd[w].from \in Branches /\ cmd[w].ref \in Betas
         /\ cmd[w].kind = "next" => cmd[w].ref \in DevLines
         /\ step \in {"main", "pull", "merge", "pushmain"} => cmd[w].kind = "final"
         /\ step = "pushline" => cmd[w].kind = "beta"
         /\ step = "tag" => cmd[w].kind \in {"final", "beta"}
         /\ step \in {"branch", "switch", "modules"} => cmd[w].kind = "next"
<1>1. cmd[w] # Idle BY DEF Does, Idle
<1>2. \/ cmd[w].kind = "final" /\ cmd[w].from \in DevLines /\ cmd[w].ref \in Finals /\ Follows(w, FinalPlan, 9)
      \/ cmd[w].kind = "beta" /\ cmd[w].from \in Branches /\ cmd[w].ref \in Betas /\ Follows(w, BetaPlan, 6)
      \/ cmd[w].kind = "next" /\ cmd[w].ref \in DevLines /\ Follows(w, NextPlan, 7)
  BY <1>1 DEF CmdOK, CommandOK
<1>3. Follows(w, FinalPlan, 9) => step \notin {"pushline", "branch", "switch", "modules"}
  <2>1. \A i \in 1..9 : Rest(FinalPlan, i)[1] = FinalPlan[i] BY PlansArePlans, RestIs, 9 \in Nat
  <2>2. \A i \in 1..9 : FinalPlan[i] \notin {"pushline", "branch", "switch", "modules"} BY DEF FinalPlan
  <2> QED BY <2>1, <2>2 DEF Follows, Does
<1>4. Follows(w, BetaPlan, 6) => step \notin {"main", "pull", "merge", "pushmain", "branch", "switch", "modules"}
  <2>1. \A i \in 1..6 : Rest(BetaPlan, i)[1] = BetaPlan[i] BY PlansArePlans, RestIs, 6 \in Nat
  <2>2. \A i \in 1..6 : BetaPlan[i] \notin {"main", "pull", "merge", "pushmain", "branch", "switch", "modules"} BY DEF BetaPlan
  <2> QED BY <2>1, <2>2 DEF Follows, Does
<1>5. Follows(w, NextPlan, 7) => step \notin {"main", "pull", "merge", "pushmain", "pushline", "tag"}
  <2>1. \A i \in 1..7 : Rest(NextPlan, i)[1] = NextPlan[i] BY PlansArePlans, RestIs, 7 \in Nat
  <2>2. \A i \in 1..7 : NextPlan[i] \notin {"main", "pull", "merge", "pushmain", "pushline", "tag"} BY DEF NextPlan
  <2> QED BY <2>1, <2>2 DEF Follows, Does
<1>6. CASE cmd[w].kind = "final" BY <1>1, <1>2, <1>3, <1>6
<1>7. CASE cmd[w].kind = "beta" BY <1>1, <1>2, <1>4, <1>7
<1>8. CASE cmd[w].kind = "next" BY <1>1, <1>2, <1>5, <1>8
<1> QED BY <1>2, <1>6, <1>7, <1>8

(* Where a final release and a beta are after a call.                      *)
LEMMA FinalAfter ==
  ASSUME CmdOK, NEW w \in Clones, cmd[w].kind = "final", NEW step, Does(w, step), Goes(w)
  PROVE  \/ Succeeds(w) /\ step = "pushref"
         \/ /\ outcome' = outcome
            /\ cmd'[w].kind = "final" /\ cmd'[w].from = cmd[w].from
            /\ cmd'[w].ref = cmd[w].ref /\ cmd'[w].tip = cmd[w].tip
            /\ \A s \in {"ask", "fetch", "look", "main", "pull", "merge"} :
                  Does(w, s)' => step \in {"ask", "fetch", "look", "main", "pull"}
            /\ Does(w, "tag")' => step = "merge"
            /\ Does(w, "pushmain")' => step = "tag"
            /\ Does(w, "pushref")' => step = "pushmain"
<1>1. CASE Succeeds(w) /\ step = "pushref" BY <1>1
<1>2. CASE /\ <<step, cmd'[w].todo[1]>> \in
                {<<"ask", "fetch">>, <<"fetch", "look">>, <<"look", "main">>, <<"main", "pull">>,
                 <<"pull", "merge">>, <<"merge", "tag">>, <<"tag", "pushmain">>, <<"pushmain", "pushref">>}
           /\ outcome' = outcome
           /\ \E t \in Seq(Calls) : cmd' = [cmd EXCEPT ![w].todo = t]
  <2>1. PICK t \in Seq(Calls) : cmd' = [cmd EXCEPT ![w].todo = t] BY <1>2
  <2>2. /\ cmd'[w].kind = "final" /\ cmd'[w].from = cmd[w].from
        /\ cmd'[w].ref = cmd[w].ref /\ cmd'[w].tip = cmd[w].tip
    BY <2>1 DEF CmdOK
  <2> DEFINE next == cmd'[w].todo[1]
  <2>3. /\ next \in {"ask", "fetch", "look", "main", "pull", "merge"} =>
              step \in {"ask", "fetch", "look", "main", "pull"}
        /\ next = "tag" => step = "merge"
        /\ next = "pushmain" => step = "tag"
        /\ next = "pushref" => step = "pushmain"
    BY <1>2
  <2>4. \A s : Does(w, s)' => next = s BY DEF Does
  <2> QED BY <1>2, <2>2, <2>3, <2>4
<1> QED BY <1>1, <1>2, FinalGoes

LEMMA BetaAfter ==
  ASSUME CmdOK, NEW w \in Clones, cmd[w].kind = "beta", NEW step, Does(w, step), Goes(w)
  PROVE  \/ Succeeds(w) /\ step = "pushref"
         \/ /\ outcome' = outcome
            /\ cmd'[w].kind = "beta" /\ cmd'[w].from = cmd[w].from
            /\ cmd'[w].ref = cmd[w].ref /\ cmd'[w].tip = cmd[w].tip
            /\ Does(w, "pushline")' => step = "tag"
            /\ Does(w, "pushref")' => step = "pushline"
<1>1. CASE Succeeds(w) /\ step = "pushref" BY <1>1
<1>2. CASE /\ <<step, cmd'[w].todo[1]>> \in
                {<<"ask", "fetch">>, <<"fetch", "look">>, <<"look", "tag">>, <<"tag", "pushline">>,
                 <<"pushline", "pushref">>}
           /\ outcome' = outcome
           /\ \E t \in Seq(Calls) : cmd' = [cmd EXCEPT ![w].todo = t]
  <2>1. PICK t \in Seq(Calls) : cmd' = [cmd EXCEPT ![w].todo = t] BY <1>2
  <2>2. /\ cmd'[w].kind = "beta" /\ cmd'[w].from = cmd[w].from
        /\ cmd'[w].ref = cmd[w].ref /\ cmd'[w].tip = cmd[w].tip
    BY <2>1 DEF CmdOK
  <2> DEFINE next == cmd'[w].todo[1]
  <2>3. (next = "pushline" => step = "tag") /\ (next = "pushref" => step = "pushline") BY <1>2
  <2>4. \A s : Does(w, s)' => next = s BY DEF Does
  <2> QED BY <1>2, <2>2, <2>3, <2>4
<1> QED BY <1>1, <1>2, BetaGoes

LEMMA NextStaysNext ==
  ASSUME CmdOK, NEW w \in Clones, cmd[w].kind = "next", NEW step, Does(w, step), Goes(w)
  PROVE  \/ Succeeds(w) /\ step = "pushref"
         \/ outcome' = outcome /\ cmd'[w].kind = "next"
<1>1. \/ Succeeds(w) /\ step = "pushref"
      \/ outcome' = outcome /\ \E t \in Seq(Calls) : cmd' = [cmd EXCEPT ![w].todo = t]
  BY NextGoes
<1>2. (\E t \in Seq(Calls) : cmd' = [cmd EXCEPT ![w].todo = t]) => cmd'[w].kind = "next" BY DEF CmdOK
<1> QED BY <1>1, <1>2
----------------------------------------------------------------------------
(* What every step keeps, and leaves to the other clones; what is pushed   *)
(* stays.                                                                  *)

OnlyOf(w) ==
    \A v \in Clones \ {w} :
        cmd'[v] = cmd[v] /\ outcome'[v] = outcome[v] /\ local'[v] = local[v] /\ head'[v] = head[v]
OriginGrows ==
    /\ \A r \in Branches : origin[r] # 0 => origin'[r] # 0 /\ origin[r] \in anc'[origin'[r]]
    /\ \A t \in Tags : origin[t] # 0 => origin'[t] = origin[t]
Keeps(w) == TypeInv' /\ HistoryGrows /\ OriginGrows /\ OnlyOf(w)

LEMMA WriteKeeps ==
  ASSUME HistOK, HistOK', HistoryGrows, LocalOK, HeadOK, NEW w \in Clones, NEW r \in Refs, NEW c \in Commits',
         local' = [local EXCEPT ![w][r] = c], head' = head
  PROVE  /\ LocalOK' /\ HeadOK' /\ local'[w][r] = c
         /\ \A q \in Refs \ {r} : local'[w][q] = local[w][q]
         /\ \A v \in Clones \ {w} : local'[v] = local[v] /\ head'[v] = head[v]
<1>1. Commits \subseteq Commits' BY CommitsGrow
<1>2. local \in [Clones -> [Refs -> {0} \cup Commits']] BY <1>1 DEF LocalOK
<1>3. LocalOK' BY <1>2 DEF LocalOK
<1>4. local'[w][r] = c /\ \A q \in Refs \ {r} : local'[w][q] = local[w][q] BY DEF LocalOK
<1>5. \A v \in Clones \ {w} : local'[v] = local[v] /\ head'[v] = head[v] BY DEF LocalOK
<1>6. c # 0 BY ZeroIsNone, HistOK' DEF HistOK, Commits
<1>7. \A v \in Clones, q \in Refs : local[v][q] # 0 => local'[v][q] # 0 BY <1>4, <1>5, <1>6
<1>8. head' \in [Clones -> Branches \cup ({"at"} \X Commits')] BY <1>1 DEF HeadOK
<1>9. HeadOK' BY <1>7, <1>8, RefsApart DEF HeadOK
<1> QED BY <1>3, <1>4, <1>5, <1>9

LEMMA StayKeeps ==
  ASSUME HistOK, HistOK', HistoryGrows, LocalOK, HeadOK, UNCHANGED <<local, head>>
  PROVE  LocalOK' /\ HeadOK' /\ \A v \in Clones : local'[v] = local[v] /\ head'[v] = head[v]
<1>1. Commits \subseteq Commits' BY CommitsGrow
<1>2. LocalOK' BY <1>1 DEF LocalOK
<1>3. HeadOK' BY <1>1 DEF HeadOK
<1> QED BY <1>2, <1>3

LEMMA OriginStays ==
  ASSUME HistOK, HistOK', HistoryGrows, OriginOK, UNCHANGED origin
  PROVE  OriginOK' /\ OriginGrows
<1>1. Commits \subseteq Commits' BY CommitsGrow
<1>2. OriginOK' BY <1>1 DEF OriginOK
<1>3. ASSUME NEW r \in Branches, origin[r] # 0 PROVE origin[r] \in anc'[origin[r]]
  <2>1. origin[r] \in Commits' BY <1>2, <1>3, RefsApart DEF OriginOK
  <2> QED BY <2>1 DEF HistOK
<1> QED BY <1>2, <1>3 DEF OriginGrows

LEMMA PushesKeeps ==
  ASSUME HistOK, OriginOK, LocalOK, UNCHANGED anc, NEW w \in Clones, NEW r \in Refs, Pushes(w, r)
  PROVE  /\ OriginOK' /\ OriginGrows /\ local[w][r] \in Commits
         /\ origin'[r] = local[w][r] /\ \A q \in Refs \ {r} : origin'[q] = origin[q]
<1>1. Commits' = Commits BY DEF Commits
<1>2. local[w][r] \in Commits BY DEF Pushes, LocalOK
<1>3. origin' = [origin EXCEPT ![r] = local[w][r]] BY DEF Pushes
<1>4. origin'[r] = local[w][r] /\ \A q \in Refs \ {r} : origin'[q] = origin[q] BY <1>3 DEF OriginOK
<1>5. 0 \notin Commits BY ZeroIsNone
<1>6. OriginOK' BY <1>1, <1>2, <1>3, <1>4, <1>5, RefsApart DEF OriginOK
<1>7. ASSUME NEW q \in Branches, origin[q] # 0 PROVE origin'[q] # 0 /\ origin[q] \in anc[origin'[q]]
  <2>1. origin[q] \in Commits BY <1>7, RefsApart DEF OriginOK
  <2>2. CASE q = r
    <3>1. r \notin Tags BY <2>2, RefsApart
    <3>2. Holds(local[w][r], origin[r]) BY <3>1 DEF Pushes
    <3> QED BY <1>2, <1>4, <1>5, <1>7, <2>2, <3>2 DEF Holds
  <2>3. CASE q # r BY <1>4, <1>7, <2>1, <2>3, RefsApart DEF HistOK
  <2> QED BY <2>2, <2>3
<1>8. ASSUME NEW t \in Tags, origin[t] # 0 PROVE origin'[t] = origin[t]
  <2>1. CASE t = r BY <1>4, <1>8, <2>1 DEF Pushes
  <2>2. CASE t # r BY <1>4, <2>2, RefsApart
  <2> QED BY <2>1, <2>2
<1> QED BY <1>2, <1>4, <1>6, <1>7, <1>8 DEF OriginGrows

LEMMA OthersWait ==
  ASSUME CmdOK, OutcomeOK, NEW w \in Clones, Goes(w) \/ (\E ok \in BOOLEAN : Finish(w, ok))
  PROVE  \A v \in Clones \ {w} : cmd'[v] = cmd[v] /\ outcome'[v] = outcome[v]
<1>1. ASSUME NEW ok \in BOOLEAN, Finish(w, ok)
      PROVE  \A v \in Clones \ {w} : cmd'[v] = cmd[v] /\ outcome'[v] = outcome[v]
  BY <1>1 DEF Finish, CmdOK, OutcomeOK
<1>2. ASSUME Goes(w) PROVE \A v \in Clones \ {w} : cmd'[v] = cmd[v] /\ outcome'[v] = outcome[v]
  <2>1. CASE Len(cmd[w].todo) = 1
    <3>1. Succeeds(w) BY <1>2, <2>1, LastSucceeds
    <3> QED BY <1>1, <3>1 DEF Succeeds
  <2>2. CASE Len(cmd[w].todo) # 1
    <3>1. cmd' = [cmd EXCEPT ![w].todo = Tail(@)] /\ outcome' = outcome BY <1>2, <2>2, OthersGoOn
    <3> QED BY <3>1 DEF CmdOK
  <2> QED BY <2>1, <2>2
<1> QED BY <1>1, <1>2

LEMMA PlaceKeeps ==
  ASSUME PlaceOK, NEW w \in Clones, OnlyOf(w),
         Does(w, "switch")' => local'[w][cmd'[w].ref] # 0, Does(w, "modules")' => head'[w] \in Branches,
         Does(w, "pull")' \/ Does(w, "merge")' => head'[w] = Main
  PROVE  PlaceOK'
  BY DEF PlaceOK, OnlyOf, Does

LEMMA StepKeeps ==
  ASSUME TypeInv, HistOK', HistoryGrows, OriginOK', OriginGrows, LocalOK', HeadOK',
         NEW w \in Clones, \A v \in Clones \ {w} : local'[v] = local[v] /\ head'[v] = head[v],
         NEW step, Does(w, step), Goes(w),
         step = "branch" => local'[w][cmd[w].ref] # 0, step = "switch" => head'[w] = cmd[w].ref,
         step \in {"main", "pull"} => head'[w] = Main
  PROVE  Keeps(w)
<1>1. /\ CmdOK' /\ OutcomeOK'
      /\ step # "branch" => ~Does(w, "switch")'
      /\ step # "switch" => ~Does(w, "modules")'
      /\ step # "main" => ~Does(w, "pull")'
      /\ step # "pull" => ~Does(w, "merge")'
      /\ step = "branch" => cmd'[w].ref = cmd[w].ref /\ cmd[w].ref \in DevLines
      /\ step = "switch" => cmd[w].ref \in DevLines
  BY GoesKeeps DEF TypeInv
<1>2. OnlyOf(w) BY OthersWait DEF TypeInv, OnlyOf
<1>3. PlaceOK' BY <1>1, <1>2, PlaceKeeps, RefsApart DEF TypeInv
<1> QED BY <1>1, <1>2, <1>3 DEF TypeInv, Keeps

LEMMA EndKeeps ==
  ASSUME TypeInv, HistOK', HistoryGrows, OriginOK', OriginGrows, LocalOK', HeadOK',
         NEW w \in Clones, \A v \in Clones \ {w} : local'[v] = local[v] /\ head'[v] = head[v],
         NEW ok \in BOOLEAN, Finish(w, ok)
  PROVE  Keeps(w)
<1>1. CmdOK' /\ OutcomeOK' /\ cmd'[w] = Idle BY FinishKeeps DEF TypeInv
<1>2. OnlyOf(w) BY OthersWait DEF TypeInv, OnlyOf
<1>3. \A step \in {"switch", "modules", "pull", "merge"} : ~Does(w, step)' BY <1>1 DEF Does, Idle
<1>4. PlaceOK' BY <1>2, <1>3, PlaceKeeps DEF TypeInv
<1> QED BY <1>1, <1>2, <1>4 DEF TypeInv, Keeps

LEMMA UserKeeps ==
  ASSUME TypeInv, HistOK', HistoryGrows, OriginOK', OriginGrows, LocalOK', HeadOK',
         NEW w \in Clones, \A v \in Clones \ {w} : local'[v] = local[v] /\ head'[v] = head[v],
         Free(w), UNCHANGED Others
  PROVE  Keeps(w)
<1>1. cmd' = cmd /\ outcome' = outcome BY DEF Others
<1>2. Commits \subseteq Commits' BY CommitsGrow DEF TypeInv
<1>3. CmdOK'
  <2>1. \A v \in Clones : CommandOK(v)' BY <1>1 DEF TypeInv, CmdOK, CommandOK, Follows
  <2> QED BY <1>1, <1>2, <2>1 DEF TypeInv, CmdOK
<1>4. OutcomeOK' BY <1>1, <1>2 DEF TypeInv, OutcomeOK
<1>5. OnlyOf(w) BY <1>1 DEF OnlyOf
<1>6. \A step \in {"switch", "modules", "pull", "merge"} : ~Does(w, step)' BY <1>1 DEF Free, Does, Idle
<1>7. PlaceOK' BY <1>5, <1>6, PlaceKeeps DEF TypeInv
<1> QED BY <1>3, <1>4, <1>5, <1>7 DEF TypeInv, Keeps
----------------------------------------------------------------------------
(* One lemma for each action.                                              *)

LEMMA BeginsKeeps ==
  ASSUME TypeInv, NEW w \in Clones, NEW kind \in {"final", "beta", "next"}, NEW plan, NEW from, NEW ref,
         Begins(w, kind, plan, from, ref),
         \/ kind = "final" /\ plan = FinalPlan /\ from \in DevLines /\ ref \in Finals
         \/ kind = "beta" /\ plan = BetaPlan /\ from \in Branches /\ ref \in Betas
         \/ kind = "next" /\ plan = NextPlan /\ from = <<>> /\ ref \in DevLines
  PROVE  Keeps(w)
<1> DEFINE c == [kind |-> kind, todo |-> plan, from |-> from, ref |-> ref, tip |-> At(w)]
           Cmds == [kind : Kinds, todo : Seq(Calls), from : Branches \cup {<<>>},
                    ref : Refs \cup {<<>>}, tip : {0} \cup Commits]
           Outcomes == [kind : Kinds, ok : BOOLEAN, from : Branches \cup {<<>>},
                        ref : Refs \cup {<<>>}, tip : {0} \cup Commits]
<1>1. HistOK' /\ HistoryGrows /\ Commits' = Commits BY SameHistory DEF TypeInv, Begins, Commits
<1>2. OriginOK' /\ OriginGrows BY <1>1, OriginStays DEF TypeInv, Begins
<1>3. LocalOK' /\ HeadOK' /\ \A v \in Clones : local'[v] = local[v] /\ head'[v] = head[v]
  BY <1>1, StayKeeps DEF TypeInv, Begins
<1>4. cmd' = [cmd EXCEPT ![w] = c] /\ outcome' = [outcome EXCEPT ![w] = NoOutcome]
  BY DEF Begins
<1>5. plan \in Seq(Calls) /\ plan # <<>> /\ plan[1] = "ask"
  <2>1. /\ FinalPlan \in Seq(Calls) /\ Len(FinalPlan) = 9 /\ BetaPlan \in Seq(Calls) /\ Len(BetaPlan) = 6
        /\ NextPlan \in Seq(Calls) /\ Len(NextPlan) = 7
    BY PlansArePlans DEF IsPlan
  <2>2. FinalPlan[1] = "ask" /\ BetaPlan[1] = "ask" /\ NextPlan[1] = "ask" BY DEF FinalPlan, BetaPlan, NextPlan
  <2>3. FinalPlan # <<>> /\ BetaPlan # <<>> /\ NextPlan # <<>> BY DEF FinalPlan, BetaPlan, NextPlan
  <2>4. plan \in {FinalPlan, BetaPlan, NextPlan} OBVIOUS
  <2>5. \A p \in {FinalPlan, BetaPlan, NextPlan} : p \in Seq(Calls) /\ p # <<>> /\ p[1] = "ask"
    BY <2>1, <2>2, <2>3
  <2> QED BY <2>4, <2>5
<1>6. At(w) \in Commits BY AtIsCommit DEF TypeInv
<1>7. c \in Cmds BY <1>5, <1>6, RefsApart DEF Kinds
<1>8. c.kind = kind /\ c.todo = plan /\ c.from = from /\ c.ref = ref OBVIOUS
<1> HIDE DEF c
<1>9. cmd' \in [Clones -> Cmds] BY <1>4, <1>7 DEF TypeInv, CmdOK
<1>10. cmd'[w] = c /\ \A v \in Clones \ {w} : cmd'[v] = cmd[v] BY <1>4 DEF TypeInv, CmdOK
<1>11. /\ plan = FinalPlan => Follows(w, FinalPlan, 9)'
       /\ plan = BetaPlan => Follows(w, BetaPlan, 6)'
       /\ plan = NextPlan => Follows(w, NextPlan, 7)'
  <2>1. cmd'[w].todo = plan BY <1>8, <1>10
  <2>2. /\ Rest(FinalPlan, 1) = FinalPlan /\ Rest(BetaPlan, 1) = BetaPlan /\ Rest(NextPlan, 1) = NextPlan
    BY PlansArePlans, RestIsWhole, 9 \in Nat, 6 \in Nat, 7 \in Nat
  <2> QED BY <2>1, <2>2 DEF Follows
<1>12. CommandOK(w)' BY <1>8, <1>10, <1>11 DEF CommandOK
<1>13. \A v \in Clones \ {w} : CommandOK(v)' BY <1>10 DEF TypeInv, CmdOK, CommandOK, Follows
<1>14. CmdOK' BY <1>1, <1>9, <1>12, <1>13 DEF CmdOK
<1>15. NoOutcome \in Outcomes /\ NoOutcome.ok = FALSE BY DEF NoOutcome, Kinds
<1>16. OutcomeOK' BY <1>1, <1>4, <1>15 DEF TypeInv, OutcomeOK
<1>17. OnlyOf(w) BY <1>3, <1>4, <1>10 DEF OnlyOf, TypeInv, OutcomeOK
<1>18. \A step \in {"switch", "modules", "pull", "merge"} : ~Does(w, step)' BY <1>5, <1>8, <1>10 DEF Does
<1>19. PlaceOK' BY <1>17, <1>18, PlaceKeeps DEF TypeInv
<1> QED BY <1>1, <1>2, <1>3, <1>14, <1>16, <1>17, <1>19 DEF TypeInv, Keeps

LEMMA CommandsKeep == ASSUME TypeInv, NEW w \in Clones, Commands(w) PROVE Keeps(w)
<1>1. ASSUME CutFinal(w) PROVE Keeps(w)
  <2>1. PICK k \in Lines : Begins(w, "final", FinalPlan, Dev(k), Tag(k)) BY <1>1 DEF CutFinal
  <2>2. Dev(k) \in DevLines /\ Tag(k) \in Finals BY DEF DevLines, Finals
  <2> QED BY <2>1, <2>2, BeginsKeeps
<1>2. ASSUME CutBeta(w) PROVE Keeps(w)
  <2>1. PICK k \in Lines, b \in 1..MaxBeta :
          head[w] \in {Main, Dev(k)} /\ Begins(w, "beta", BetaPlan, head[w], Beta(k, b))
    BY <1>2 DEF CutBeta
  <2>2. Beta(k, b) \in Betas /\ head[w] \in Branches BY <2>1 DEF Betas, Branches, DevLines
  <2> QED BY <2>1, <2>2, BeginsKeeps
<1>3. ASSUME NextBranch(w) PROVE Keeps(w)
  <2>1. PICK k \in Lines : Begins(w, "next", NextPlan, <<>>, Dev(k)) BY <1>3 DEF NextBranch
  <2>2. Dev(k) \in DevLines BY DEF DevLines
  <2> QED BY <2>1, <2>2, BeginsKeeps
<1> QED BY <1>1, <1>2, <1>3 DEF Commands

LEMMA AskKeeps == ASSUME TypeInv, NEW w \in Clones, Ask(w) PROVE Keeps(w)
<1>1. HistOK' /\ HistoryGrows BY SameHistory DEF TypeInv, Ask
<1>2. OriginOK' /\ OriginGrows BY <1>1, OriginStays DEF TypeInv, Ask
<1>3. LocalOK' /\ HeadOK' /\ \A v \in Clones : local'[v] = local[v] /\ head'[v] = head[v]
  BY <1>1, StayKeeps DEF TypeInv, Ask
<1>4. Does(w, "ask") /\ Goes(w) BY DEF Ask
<1> QED BY <1>1, <1>2, <1>3, <1>4, StepKeeps

LEMMA StopsKeeps == ASSUME TypeInv, NEW w \in Clones, Stops(w) PROVE Keeps(w)
<1>1. HistOK' /\ HistoryGrows BY SameHistory DEF TypeInv, Stops
<1>2. OriginOK' /\ OriginGrows BY <1>1, OriginStays DEF TypeInv, Stops
<1>3. LocalOK' /\ HeadOK' /\ \A v \in Clones : local'[v] = local[v] /\ head'[v] = head[v]
  BY <1>1, StayKeeps DEF TypeInv, Stops
<1>4. \E ok \in BOOLEAN : Finish(w, ok) BY Zenon DEF Stops
<1> QED BY <1>1, <1>2, <1>3, <1>4, EndKeeps

LEMMA FetchedRefs ==
  ASSUME TypeInv, NEW w \in Clones, Fetch(w)
  PROVE  /\ LocalOK' /\ HeadOK' /\ \A r \in Branches : local'[w][r] = local[w][r]
         /\ \A v \in Clones \ {w} : local'[v] = local[v] /\ head'[v] = head[v]
         /\ head' = head
<1> DEFINE f == [r \in Refs |-> IF r \in Tags /\ local[w][r] = 0 THEN origin[r] ELSE local[w][r]]
<1>1. local' = [local EXCEPT ![w] = f] /\ head' = head BY DEF Fetch
<1>2. f \in [Refs -> {0} \cup Commits] BY DEF TypeInv, LocalOK, OriginOK
<1>3. \A r \in Branches : f[r] = local[w][r] BY RefsApart
<1> HIDE DEF f
<1>4. local'[w] = f /\ \A v \in Clones \ {w} : local'[v] = local[v] BY <1>1 DEF TypeInv, LocalOK
<1>5. Commits' = Commits BY DEF Fetch, Commits
<1>6. LocalOK' BY <1>1, <1>2, <1>5 DEF TypeInv, LocalOK
<1>7. HeadOK' BY <1>1, <1>3, <1>4, <1>5, RefsApart DEF TypeInv, HeadOK
<1> QED BY <1>1, <1>3, <1>4, <1>6, <1>7

LEMMA FetchKeeps == ASSUME TypeInv, NEW w \in Clones, Fetch(w) PROVE Keeps(w)
<1>1. HistOK' /\ HistoryGrows BY SameHistory DEF TypeInv, Fetch
<1>2. OriginOK' /\ OriginGrows BY <1>1, OriginStays DEF TypeInv, Fetch
<1>3. LocalOK' /\ HeadOK' /\ \A v \in Clones \ {w} : local'[v] = local[v] /\ head'[v] = head[v]
  BY FetchedRefs
<1>4. Does(w, "fetch") BY DEF Fetch
<1>5. Goes(w) \/ (\E ok \in BOOLEAN : Finish(w, ok)) BY Zenon DEF Fetch
<1>6. ASSUME Goes(w) PROVE Keeps(w) BY <1>1, <1>2, <1>3, <1>4, <1>6, StepKeeps
<1>7. ASSUME NEW ok \in BOOLEAN, Finish(w, ok) PROVE Keeps(w) BY <1>1, <1>2, <1>3, <1>7, EndKeeps
<1> QED BY <1>5, <1>6, <1>7

LEMMA LookKeeps == ASSUME TypeInv, NEW w \in Clones, Look(w) PROVE Keeps(w)
<1>1. HistOK' /\ HistoryGrows BY SameHistory DEF TypeInv, Look
<1>2. OriginOK' /\ OriginGrows BY <1>1, OriginStays DEF TypeInv, Look
<1>3. LocalOK' /\ HeadOK' /\ \A v \in Clones : local'[v] = local[v] /\ head'[v] = head[v]
  BY <1>1, StayKeeps DEF TypeInv, Look
<1>4. Goes(w) /\ \E step \in {"look", "lookline"} : Does(w, step) BY DEF Look
<1> QED BY <1>1, <1>2, <1>3, <1>4, StepKeeps

LEMMA CheckoutMainKeeps == ASSUME TypeInv, NEW w \in Clones, CheckoutMain(w) PROVE Keeps(w)
<1>1. HistOK' /\ HistoryGrows BY SameHistory DEF TypeInv, CheckoutMain
<1>2. OriginOK' /\ OriginGrows BY <1>1, OriginStays DEF TypeInv, CheckoutMain
<1>3. Commits' = Commits /\ local' = local /\ head' = [head EXCEPT ![w] = Main] BY DEF CheckoutMain, Commits
<1>4. LocalOK' BY <1>3 DEF TypeInv, LocalOK
<1>5. HeadOK' BY <1>3, RefsApart DEF TypeInv, HeadOK
<1>6. \A v \in Clones \ {w} : local'[v] = local[v] /\ head'[v] = head[v] BY <1>3 DEF TypeInv, HeadOK
<1>7. Does(w, "main") /\ Goes(w) /\ head'[w] = Main BY <1>3 DEF CheckoutMain, TypeInv, HeadOK
<1> QED BY <1>1, <1>2, <1>4, <1>5, <1>6, <1>7, StepKeeps

LEMMA PullMainKeeps == ASSUME TypeInv, NEW w \in Clones, PullMain(w) PROVE Keeps(w)
<1>1. HistOK' /\ HistoryGrows BY SameHistory DEF TypeInv, PullMain
<1>2. OriginOK' /\ OriginGrows BY <1>1, OriginStays DEF TypeInv, PullMain
<1>3. PICK c \in {local[w][Main], origin[Main]} : local' = [local EXCEPT ![w][Main] = c] BY DEF PullMain
<1>4. c \in Commits' BY RefsApart DEF TypeInv, LocalOK, HeadOK, OriginOK, PullMain, Commits
<1>5. head' = head BY DEF PullMain
<1>6. /\ LocalOK' /\ HeadOK'
      /\ \A v \in Clones \ {w} : local'[v] = local[v] /\ head'[v] = head[v]
  BY <1>1, <1>3, <1>4, <1>5, RefsApart, WriteKeeps DEF TypeInv
<1>7. Does(w, "pull") /\ Goes(w) /\ head'[w] = Main BY <1>5 DEF PullMain, TypeInv, PlaceOK
<1> QED BY <1>1, <1>2, <1>6, <1>7, StepKeeps
LEMMA MergesTo ==
  ASSUME TypeInv, NEW w \in Clones, Merge(w)
  PROVE  /\ HistOK' /\ HistoryGrows /\ local[w][cmd[w].from] \in Commits
         /\ \E c \in Commits' :
                /\ local' = [local EXCEPT ![w][Main] = c]
                /\ local[w][cmd[w].from] \in anc'[c]
<1> DEFINE mine == local[w][Main]  line == local[w][cmd[w].from]
<1>1. head[w] = Main BY DEF Merge, TypeInv, PlaceOK
<1>2. At(w) = mine BY <1>1, RefsApart DEF At
<1>3. cmd[w].from \in DevLines BY KindOfStep DEF Merge, TypeInv
<1>4. mine \in Commits /\ line \in Commits BY <1>2, <1>3, RefsApart DEF Merge, TypeInv, LocalOK, HeadOK
<1>5. CASE Holds(mine, line)
  <2>1. UNCHANGED <<anc, local>> BY <1>2, <1>5 DEF Merge
  <2>2. HistOK' /\ HistoryGrows /\ Commits' = Commits BY <2>1, SameHistory DEF TypeInv, Commits
  <2>3. local' = [local EXCEPT ![w][Main] = mine] BY <2>1, RefsApart DEF TypeInv, LocalOK
  <2>4. line \in anc'[mine] BY <1>4, <1>5, <2>1, ZeroIsNone DEF Holds, TypeInv
  <2> QED BY <1>4, <2>2, <2>3, <2>4
<1>6. CASE ~Holds(mine, line) /\ Holds(line, mine)
  <2>1. anc' = anc /\ local' = [local EXCEPT ![w][Main] = line] BY <1>1, <1>2, <1>6 DEF Merge
  <2>2. HistOK' /\ HistoryGrows /\ Commits' = Commits BY <2>1, SameHistory DEF TypeInv, Commits
  <2>3. line \in anc'[line] BY <1>4, <2>2 DEF HistOK
  <2> QED BY <1>4, <2>1, <2>2, <2>3
<1>7. CASE ~Holds(mine, line) /\ ~Holds(line, mine)
  <2>1. NewCommit({mine, line}) /\ local' = [local EXCEPT ![w][Main] = Len(anc) + 1]
    BY <1>1, <1>2, <1>7 DEF Merge
  <2>2. {mine, line} \in SUBSET Commits BY <1>4
  <2>3. /\ HistOK' /\ HistoryGrows /\ Len(anc) + 1 \in Commits'
        /\ \A p \in {mine, line} : p \in anc'[Len(anc) + 1]
    BY <2>1, <2>2, NewCommitKeeps DEF TypeInv
  <2> QED BY <1>4, <2>1, <2>3
<1> QED BY <1>5, <1>6, <1>7

LEMMA MergeKeeps == ASSUME TypeInv, NEW w \in Clones, Merge(w) PROVE Keeps(w)
<1>1. HistOK' /\ HistoryGrows BY MergesTo
<1>2. PICK c \in Commits' : local' = [local EXCEPT ![w][Main] = c] BY MergesTo
<1>3. OriginOK' /\ OriginGrows BY <1>1, OriginStays DEF TypeInv, Merge
<1>4. head' = head BY DEF Merge
<1>5. /\ LocalOK' /\ HeadOK'
      /\ \A v \in Clones \ {w} : local'[v] = local[v] /\ head'[v] = head[v]
  BY <1>1, <1>2, <1>4, RefsApart, WriteKeeps DEF TypeInv
<1>6. Does(w, "merge") /\ Goes(w) BY DEF Merge
<1> QED BY <1>1, <1>3, <1>5, <1>6, StepKeeps

LEMMA TagHeadKeeps == ASSUME TypeInv, NEW w \in Clones, TagHead(w) PROVE Keeps(w)
<1>1. HistOK' /\ HistoryGrows /\ Commits' = Commits BY SameHistory DEF TypeInv, TagHead, Commits
<1>2. OriginOK' /\ OriginGrows BY <1>1, OriginStays DEF TypeInv, TagHead
<1>3. At(w) \in Commits' BY <1>1, AtIsCommit DEF TypeInv
<1>4. cmd[w].ref \in Refs BY KindOfStep, RefsApart DEF TagHead, TypeInv
<1>5. local' = [local EXCEPT ![w][cmd[w].ref] = At(w)] /\ head' = head BY DEF TagHead
<1>6. /\ LocalOK' /\ HeadOK'
      /\ \A v \in Clones \ {w} : local'[v] = local[v] /\ head'[v] = head[v]
  BY <1>1, <1>3, <1>4, <1>5, WriteKeeps DEF TypeInv
<1>7. Does(w, "tag") /\ Goes(w) BY DEF TagHead
<1> QED BY <1>1, <1>2, <1>6, <1>7, StepKeeps

LEMMA CreateBranchKeeps == ASSUME TypeInv, NEW w \in Clones, CreateBranch(w) PROVE Keeps(w)
<1>1. HistOK' /\ HistoryGrows /\ Commits' = Commits BY SameHistory DEF TypeInv, CreateBranch, Commits
<1>2. OriginOK' /\ OriginGrows BY <1>1, OriginStays DEF TypeInv, CreateBranch
<1>3. At(w) \in Commits' /\ At(w) # 0 BY <1>1, AtIsCommit, ZeroIsNone DEF TypeInv
<1>4. cmd[w].ref \in Refs BY KindOfStep, RefsApart DEF CreateBranch, TypeInv
<1> DEFINE c == At(w)  r == cmd[w].ref
<1>5. local' = [local EXCEPT ![w][r] = c] /\ head' = head BY DEF CreateBranch
<1>6. /\ LocalOK' /\ HeadOK' /\ local'[w][r] = c
      /\ \A v \in Clones \ {w} : local'[v] = local[v] /\ head'[v] = head[v]
  <2>1. c \in Commits' /\ r \in Refs BY <1>3, <1>4
  <2> HIDE DEF c, r
  <2> QED BY <1>1, <1>5, <2>1, WriteKeeps, ZenonT(60) DEF TypeInv
<1>7. Does(w, "branch") /\ Goes(w) BY DEF CreateBranch
<1> QED BY <1>1, <1>2, <1>3, <1>6, <1>7, StepKeeps

LEMMA PushKeeps == ASSUME TypeInv, NEW w \in Clones, Push(w) PROVE Keeps(w)
<1>1. HistOK' /\ HistoryGrows BY SameHistory DEF TypeInv, Push
<1>2. LocalOK' /\ HeadOK' /\ \A v \in Clones : local'[v] = local[v] /\ head'[v] = head[v]
  BY <1>1, StayKeeps DEF TypeInv, Push
<1>3. PICK step \in {"pushmain", "pushline", "pushref"} : Does(w, step) BY DEF Push
<1>4. PICK r \in {Main, cmd[w].from, cmd[w].ref} :
        /\ Pushes(w, r)
        /\ r = cmd[w].from => Does(w, "pushline") \/ r = Main \/ r = cmd[w].ref
  BY DEF Push
<1>5. r \in Refs
  <2>1. cmd[w].ref \in Refs BY <1>3, KindOfStep, RefsApart DEF TypeInv
  <2>2. Does(w, "pushline") => cmd[w].from \in Refs BY KindOfStep, RefsApart DEF TypeInv
  <2> QED BY <1>4, <2>1, <2>2, RefsApart
<1>6. OriginOK' /\ OriginGrows BY <1>4, <1>5, PushesKeeps DEF TypeInv, Push
<1>7. Goes(w) BY DEF Push
<1> QED BY <1>1, <1>2, <1>3, <1>6, <1>7, StepKeeps

LEMMA CheckoutNextKeeps == ASSUME TypeInv, NEW w \in Clones, CheckoutNext(w) PROVE Keeps(w)
<1>1. HistOK' /\ HistoryGrows BY SameHistory DEF TypeInv, CheckoutNext
<1>2. OriginOK' /\ OriginGrows BY <1>1, OriginStays DEF TypeInv, CheckoutNext
<1>3. Commits' = Commits /\ local' = local /\ head' = [head EXCEPT ![w] = cmd[w].ref] BY DEF CheckoutNext, Commits
<1>4. Does(w, "switch") /\ Goes(w) BY DEF CheckoutNext
<1>5. cmd[w].ref \in DevLines BY <1>1, <1>4, GoesKeeps DEF TypeInv
<1>6. local[w][cmd[w].ref] # 0 BY <1>4 DEF TypeInv, PlaceOK
<1>7. LocalOK' BY <1>3 DEF TypeInv, LocalOK
<1>8. head'[w] = cmd[w].ref /\ \A v \in Clones \ {w} : local'[v] = local[v] /\ head'[v] = head[v]
  BY <1>3 DEF TypeInv, HeadOK
<1>9. HeadOK' BY <1>3, <1>5, <1>6, <1>8, RefsApart DEF TypeInv, HeadOK
<1> QED BY <1>1, <1>2, <1>4, <1>7, <1>8, <1>9, StepKeeps

(* A commit on the branch that is checked out.                             *)
LEMMA CommitKeeps ==
  ASSUME TypeInv, NEW w \in Clones, head[w] \in Branches, NewCommit({At(w)}),
         local' = [local EXCEPT ![w][head[w]] = Len(anc) + 1], head' = head
  PROVE  /\ HistOK' /\ HistoryGrows /\ LocalOK' /\ HeadOK'
         /\ \A v \in Clones \ {w} : local'[v] = local[v] /\ head'[v] = head[v]
<1>1. {At(w)} \in SUBSET Commits BY AtIsCommit DEF TypeInv
<1>2. HistOK' /\ HistoryGrows /\ Len(anc) + 1 \in Commits' BY <1>1, NewCommitKeeps DEF TypeInv
<1>3. PICK r \in Refs : r = head[w] BY RefsApart
<1>4. PICK d \in Commits' : local' = [local EXCEPT ![w][r] = d] BY <1>2, <1>3
<1>5. HistOK /\ LocalOK /\ HeadOK BY DEF TypeInv
<1>6. /\ LocalOK' /\ HeadOK'
      /\ \A v \in Clones \ {w} : local'[v] = local[v] /\ head'[v] = head[v]
  BY ONLY <1>2, <1>4, <1>5, head' = head, w \in Clones, r \in Refs, WriteKeeps
<1> QED BY <1>2, <1>6

LEMMA TrackNextKeeps == ASSUME TypeInv, NEW w \in Clones, TrackNext(w) PROVE Keeps(w)
<1>1. Does(w, "modules") /\ Goes(w) /\ UNCHANGED <<origin, head>> BY DEF TrackNext
<1>2. head[w] \in Branches BY <1>1 DEF TypeInv, PlaceOK
<1>3. CASE UNCHANGED <<anc, local>>
  <2>1. HistOK' /\ HistoryGrows BY <1>3, SameHistory DEF TypeInv
  <2>2. LocalOK' /\ HeadOK' /\ \A v \in Clones : local'[v] = local[v] /\ head'[v] = head[v]
    BY <1>1, <1>3, <2>1, StayKeeps DEF TypeInv
  <2>3. OriginOK' /\ OriginGrows BY <1>1, <2>1, OriginStays DEF TypeInv
  <2> QED BY <1>1, <2>1, <2>2, <2>3, StepKeeps
<1>4. CASE NewCommit({At(w)}) /\ local' = [local EXCEPT ![w][head[w]] = Len(anc) + 1]
  <2>1. /\ HistOK' /\ HistoryGrows /\ LocalOK' /\ HeadOK'
        /\ \A v \in Clones \ {w} : local'[v] = local[v] /\ head'[v] = head[v]
    BY <1>1, <1>2, <1>4, CommitKeeps
  <2>2. OriginOK' /\ OriginGrows BY <1>1, <2>1, OriginStays DEF TypeInv
  <2> QED BY <1>1, <2>1, <2>2, StepKeeps
<1> QED BY <1>3, <1>4 DEF TrackNext

LEMMA StepsKeep == ASSUME TypeInv, NEW w \in Clones, Steps(w) PROVE Keeps(w)
  BY AskKeeps, FetchKeeps, LookKeeps, CheckoutMainKeeps, PullMainKeeps, MergeKeeps, TagHeadKeeps, PushKeeps,
     CreateBranchKeeps, CheckoutNextKeeps, TrackNextKeeps, StopsKeeps DEF Steps
LEMMA WorkKeeps == ASSUME TypeInv, NEW w \in Clones, Work(w) PROVE Keeps(w)
<1>1. /\ Free(w) /\ head[w] \in Branches /\ UNCHANGED Others
      /\ NewCommit({At(w)}) /\ local' = [local EXCEPT ![w][head[w]] = Len(anc) + 1]
      /\ origin' = origin /\ head' = head
  BY DEF Work
<1>2. /\ HistOK' /\ HistoryGrows /\ LocalOK' /\ HeadOK'
      /\ \A v \in Clones \ {w} : local'[v] = local[v] /\ head'[v] = head[v]
  BY <1>1, CommitKeeps
<1>3. OriginOK' /\ OriginGrows BY <1>1, <1>2, OriginStays DEF TypeInv
<1> QED BY <1>1, <1>2, <1>3, UserKeeps

LEMMA SwitchKeeps == ASSUME TypeInv, NEW w \in Clones, Switch(w) PROVE Keeps(w)
<1>1. HistOK' /\ HistoryGrows /\ Commits' = Commits BY SameHistory DEF TypeInv, Switch, Commits
<1>2. OriginOK' /\ OriginGrows BY <1>1, OriginStays DEF TypeInv, Switch
<1>3. Free(w) /\ UNCHANGED Others BY DEF Switch
<1>4. ASSUME NEW b \in Branches, {local[w][b], origin[b]} # {0},
             local' = [local EXCEPT ![w][b] = IF @ = 0 THEN origin[b] ELSE @],
             head' = [head EXCEPT ![w] = b]
      PROVE  Keeps(w)
  <2> DEFINE c == IF local[w][b] = 0 THEN origin[b] ELSE local[w][b]
  <2>1. c \in Commits BY <1>4, RefsApart DEF TypeInv, LocalOK, OriginOK
  <2>2. local' = [local EXCEPT ![w][b] = c] BY <1>4
  <2> HIDE DEF c
  <2>3. local'[w][b] = c /\ \A q \in Refs \ {b} : local'[w][q] = local[w][q]
    BY <2>2, RefsApart DEF TypeInv, LocalOK
  <2>4. \A v \in Clones \ {w} : local'[v] = local[v] /\ head'[v] = head[v]
    BY <1>4, <2>2 DEF TypeInv, LocalOK, HeadOK
  <2>5. LocalOK' BY <1>1, <2>1, <2>2 DEF TypeInv, LocalOK
  <2>6. local'[w][Main] # 0 /\ local'[w][b] # 0
    BY <2>1, <2>3, ZeroIsNone, RefsApart DEF TypeInv, HeadOK
  <2>7. head'[w] = b BY <1>4 DEF TypeInv, HeadOK
  <2>8. head' \in [Clones -> Branches \cup ({"at"} \X Commits')] BY <1>1, <1>4 DEF TypeInv, HeadOK
  <2>9. HeadOK' BY <2>4, <2>6, <2>7, <2>8 DEF TypeInv, HeadOK
  <2> QED BY <1>1, <1>2, <1>3, <2>4, <2>5, <2>9, UserKeeps
<1>5. ASSUME NEW t \in Finals, local[w][t] # 0, head' = [head EXCEPT ![w] = <<"at", local[w][t]>>], UNCHANGED local
      PROVE  Keeps(w)
  <2>1. local[w][t] \in Commits BY <1>5, RefsApart DEF TypeInv, LocalOK
  <2>2. <<"at", local[w][t]>> \notin Branches BY <2>1, RefsApart DEF TypeInv, HistOK, Commits
  <2>3. \A v \in Clones \ {w} : local'[v] = local[v] /\ head'[v] = head[v]
    BY <1>5 DEF TypeInv, HeadOK
  <2>4. LocalOK' BY <1>1, <1>5 DEF TypeInv, LocalOK
  <2>5. head'[w] = <<"at", local[w][t]>> BY <1>5 DEF TypeInv, HeadOK
  <2>6. head' \in [Clones -> Branches \cup ({"at"} \X Commits')] BY <1>1, <1>5, <2>1 DEF TypeInv, HeadOK
  <2>7. HeadOK' BY <1>5, <2>2, <2>3, <2>5, <2>6 DEF TypeInv, HeadOK
  <2> QED BY <1>1, <1>2, <1>3, <2>3, <2>4, <2>7, UserKeeps
<1> QED BY <1>4, <1>5 DEF Switch

LEMMA PushBranchKeeps == ASSUME TypeInv, NEW w \in Clones, PushBranch(w) PROVE Keeps(w)
<1>1. HistOK' /\ HistoryGrows BY SameHistory DEF TypeInv, PushBranch
<1>2. LocalOK' /\ HeadOK' /\ \A v \in Clones : local'[v] = local[v] /\ head'[v] = head[v]
  BY <1>1, StayKeeps DEF TypeInv, PushBranch
<1>3. PICK r \in Refs : Pushes(w, r) BY RefsApart DEF PushBranch
<1>4. OriginOK' /\ OriginGrows BY <1>3, PushesKeeps DEF TypeInv, PushBranch
<1>5. Free(w) /\ UNCHANGED Others BY DEF PushBranch
<1> QED BY <1>1, <1>2, <1>4, <1>5, UserKeeps

LEMMA PullBranchKeeps == ASSUME TypeInv, NEW w \in Clones, PullBranch(w) PROVE Keeps(w)
<1>1. HistOK' /\ HistoryGrows /\ Commits' = Commits BY SameHistory DEF TypeInv, PullBranch, Commits
<1>2. OriginOK' /\ OriginGrows BY <1>1, OriginStays DEF TypeInv, PullBranch
<1>3. PICK r \in Branches : r = head[w] BY DEF PullBranch
<1>4. PICK c \in Commits' : c = origin[r] BY <1>1, <1>3, RefsApart DEF PullBranch, TypeInv, OriginOK
<1>5. local' = [local EXCEPT ![w][r] = c] /\ head' = head BY <1>3, <1>4 DEF PullBranch
<1>6. r \in Refs BY RefsApart
<1>7. /\ LocalOK' /\ HeadOK'
      /\ \A v \in Clones \ {w} : local'[v] = local[v] /\ head'[v] = head[v]
  BY <1>1, <1>5, <1>6, WriteKeeps DEF TypeInv
<1>8. Free(w) /\ UNCHANGED Others BY DEF PullBranch
<1> QED BY <1>1, <1>2, <1>7, <1>8, UserKeeps

LEMMA DropRefKeeps == ASSUME TypeInv, NEW w \in Clones, DropRef(w) PROVE Keeps(w)
<1>1. HistOK' /\ HistoryGrows /\ Commits' = Commits BY SameHistory DEF TypeInv, DropRef, Commits
<1>2. OriginOK' /\ OriginGrows BY <1>1, OriginStays DEF TypeInv, DropRef
<1>3. PICK r \in (Tags \cup DevLines) \ {head[w]} : local' = [local EXCEPT ![w][r] = 0] BY DEF DropRef
<1>4. r \in Refs /\ r # Main /\ head' = head BY RefsApart DEF DropRef
<1>5. LocalOK' BY <1>1, <1>3, <1>4 DEF TypeInv, LocalOK
<1>6. /\ \A q \in Refs \ {r} : local'[w][q] = local[w][q]
      /\ \A v \in Clones \ {w} : local'[v] = local[v] /\ head'[v] = head[v]
  BY <1>3, <1>4 DEF TypeInv, LocalOK
<1>7. HeadOK'
  <2>1. local'[w][Main] # 0 BY <1>4, <1>6, RefsApart DEF TypeInv, HeadOK
  <2>2. head[w] \in Branches => local'[w][head[w]] # 0 BY <1>3, <1>6, RefsApart DEF TypeInv, HeadOK
  <2> QED BY <1>1, <1>4, <1>6, <2>1, <2>2 DEF TypeInv, HeadOK
<1>8. Free(w) /\ UNCHANGED Others BY DEF DropRef
<1> QED BY <1>1, <1>2, <1>5, <1>6, <1>7, <1>8, UserKeeps

LEMMA UsersKeep == ASSUME TypeInv, NEW w \in Clones, Users(w) PROVE Keeps(w)
  BY WorkKeeps, SwitchKeeps, PushBranchKeeps, PullBranchKeeps, DropRefKeeps DEF Users

(* At the start two clones are on the line after the one release.          *)
LEMMA InitTyped == ASSUME Init PROVE TypeInv
<1>1. Len(anc) = 2 /\ anc[1] = {1} /\ anc[2] = {1, 2} /\ anc \in Seq(SUBSET Nat) BY DEF Init
<1>2. Commits = {1, 2} BY <1>1 DEF Commits
<1>3. HistOK BY <1>1, <1>2 DEF HistOK
<1>4. Dev(2) \in DevLines /\ Dev(2) \in Branches BY ReleaseAssumption DEF DevLines, Branches
<1>5. origin \in [Refs -> {0} \cup Commits] /\ origin[Main] = 1 /\ origin[Dev(2)] # 0
  <2>1. origin = [r \in Refs |-> IF r \in {Main, Tag(1)} THEN 1 ELSE IF r = Dev(2) THEN 2 ELSE 0] BY DEF Init
  <2> QED BY <1>2, <1>4, <2>1, RefsApart
<1>6. OriginOK BY <1>5 DEF OriginOK
<1>7. local = [w \in Clones |-> origin] /\ head = [w \in Clones |-> Dev(2)] BY DEF Init
<1>8. LocalOK BY <1>5, <1>7 DEF LocalOK
<1>9. HeadOK BY <1>4, <1>5, <1>7 DEF HeadOK
<1>10. cmd = [w \in Clones |-> Idle] /\ outcome = [w \in Clones |-> NoOutcome] BY DEF Init
<1>11. CmdOK BY <1>10 DEF CmdOK, CommandOK, Idle, Kinds
<1>12. PlaceOK BY <1>10 DEF PlaceOK, Does, Idle
<1>13. OutcomeOK BY <1>10 DEF OutcomeOK, NoOutcome, Kinds
<1> QED BY <1>3, <1>6, <1>8, <1>9, <1>11, <1>12, <1>13 DEF TypeInv

LEMMA NextKeeps == ASSUME TypeInv, Next PROVE \E w \in Clones : Keeps(w) /\ (Commands(w) \/ Steps(w) \/ Users(w))
  BY CommandsKeep, StepsKeep, UsersKeep DEF Next

LEMMA StutterKeeps == ASSUME TypeInv, UNCHANGED vars PROVE TypeInv'
<1>1. Commits' = Commits BY DEF vars, Commits
<1>2. HistOK' /\ OriginOK' /\ LocalOK' /\ HeadOK' BY <1>1 DEF vars, TypeInv, HistOK, OriginOK, LocalOK, HeadOK
<1>3. CmdOK' BY <1>1 DEF vars, TypeInv, CmdOK, CommandOK, Follows
<1>4. PlaceOK' BY DEF vars, TypeInv, PlaceOK, Does
<1>5. OutcomeOK' BY <1>1 DEF vars, TypeInv, OutcomeOK
<1> QED BY <1>2, <1>3, <1>4, <1>5 DEF TypeInv

(* The type of every variable, with what a command's place in its plan     *)
(* says of its branches (cut_release.py, the plans and their calls).       *)
THEOREM TypeInvAlways == Spec => []TypeInv
<1>1. ASSUME Init PROVE TypeInv BY <1>1, InitTyped
<1>2. ASSUME TypeInv, [Next]_vars PROVE TypeInv' BY <1>2, NextKeeps, StutterKeeps DEF Keeps
<1> QED BY <1>1, <1>2, PTL DEF Spec

----------------------------------------------------------------------------
(* A release that can be seen is on main.                                  *)

LEMMA HeldByMain ==
  ASSUME TypeInv, NEW w \in Clones, Keeps(w), NEW c \in Commits, Holds(origin[Main], c)
  PROVE  Holds(origin[Main], c)'
<1>1. origin[Main] \in Commits /\ origin[Main] # 0 BY RefsApart DEF TypeInv, OriginOK
<1>2. origin'[Main] # 0 /\ origin[Main] \in anc'[origin'[Main]] BY <1>1, RefsApart DEF Keeps, OriginGrows
<1>3. origin'[Main] \in Commits' BY <1>2, RefsApart DEF Keeps, TypeInv, OriginOK
<1>4. c # 0 /\ c \in anc[origin[Main]] BY ZeroIsNone DEF TypeInv, Holds
<1>5. c \in anc'[origin[Main]] BY <1>1, <1>4 DEF Keeps, HistoryGrows
<1>6. c \in anc'[origin'[Main]] BY <1>2, <1>3, <1>5 DEF Keeps, TypeInv, HistOK
<1> QED BY <1>6 DEF Holds

LEMMA OthersStayOnMain ==
  ASSUME TypeInv, NEW w \in Clones, Keeps(w), NEW v \in Clones, FinalIsMain(v),
         cmd'[v] = cmd[v], local'[v] = local[v], head'[v] = head[v]
  PROVE  FinalIsMain(v)'
<1>1. cmd[v].kind = "final" /\ Does(v, "tag") => head'[v] = Main BY DEF FinalIsMain
<1>2. cmd[v].kind = "final" /\ Does(v, "pushmain") => local'[v][cmd[v].ref] = local'[v][Main] BY DEF FinalIsMain
<1>3. cmd[v].kind = "final" /\ Does(v, "pushref") =>
        local'[v][cmd[v].ref] # 0 /\ Holds(origin[Main], local[v][cmd[v].ref])'
  <2> SUFFICES ASSUME cmd[v].kind = "final", Does(v, "pushref")
               PROVE  local'[v][cmd[v].ref] # 0 /\ Holds(origin[Main], local[v][cmd[v].ref])'
    OBVIOUS
  <2> DEFINE c == local[v][cmd[v].ref]
  <2>1. c # 0 /\ Holds(origin[Main], c) BY DEF FinalIsMain
  <2>2. cmd[v].ref \in Refs BY KindOfStep, RefsApart DEF TypeInv
  <2>3. c \in Commits BY <2>1, <2>2 DEF TypeInv, LocalOK
  <2>4. local'[v][cmd[v].ref] = c OBVIOUS
  <2>5. Holds(origin[Main], c)'
    BY <2>1, <2>3, HeldByMain
  <2> QED BY <2>1, <2>4, <2>5
<1> QED BY <1>1, <1>2, <1>3 DEF FinalIsMain, Does

(* A final release's own calls, and where they are when they have been     *)
(* made.                                                                   *)
LEMMA OwnStaysOnMain ==
  ASSUME TypeInv, NEW w \in Clones, Keeps(w), FinalIsMain(w), Steps(w)
  PROVE  FinalIsMain(w)'
<1>1. CASE cmd'[w] = Idle BY <1>1 DEF FinalIsMain, Idle
<1>2. CASE cmd'[w].kind # "final" BY <1>2 DEF FinalIsMain
<1>3. ASSUME NEW step, Does(w, step), Goes(w), cmd'[w] # Idle, cmd'[w].kind = "final",
             step = "merge" => head'[w] = Main,
             step = "tag" => local'[w][cmd[w].ref] = local'[w][Main],
             step = "pushmain" => local'[w][cmd[w].ref] # 0 /\ Holds(origin[Main], local[w][cmd[w].ref])'
      PROVE  FinalIsMain(w)'
  <2>1. ~Succeeds(w) BY <1>3 DEF Succeeds, Finish, TypeInv, CmdOK
  <2>2. cmd[w].kind = "final"
    <3>1. cmd[w].kind \in {"final", "beta", "next"} BY <1>3, KindOfStep DEF TypeInv
    <3>2. cmd[w].kind = "beta" => cmd'[w].kind = "beta" BY <1>3, <2>1, BetaAfter DEF TypeInv
    <3>3. cmd[w].kind = "next" => cmd'[w].kind = "next" BY <1>3, <2>1, NextStaysNext DEF TypeInv
    <3> QED BY <1>3, <3>1, <3>2, <3>3
  <2>3. /\ cmd'[w].ref = cmd[w].ref
        /\ Does(w, "tag")' => step = "merge"
        /\ Does(w, "pushmain")' => step = "tag"
        /\ Does(w, "pushref")' => step = "pushmain"
    BY <1>3, <2>1, <2>2, FinalAfter DEF TypeInv
  <2>4. Does(w, "tag")' => head'[w] = Main BY <1>3, <2>3
  <2>5. Does(w, "pushmain")' => local'[w][cmd'[w].ref] = local'[w][Main] BY <1>3, <2>3
  <2>6. Does(w, "pushref")' => local'[w][cmd'[w].ref] # 0 BY <1>3, <2>3
  <2>7. Does(w, "pushref")' => Holds(origin[Main], local[w][cmd[w].ref])' BY <1>3, <2>3 DEF Holds
  <2> QED BY <2>4, <2>5, <2>6, <2>7 DEF FinalIsMain
<1>4. CASE \/ Ask(w) \/ Fetch(w) \/ Look(w) \/ CheckoutMain(w) \/ PullMain(w) \/ CreateBranch(w)
           \/ CheckoutNext(w) \/ TrackNext(w)
  <2>1. Goes(w) \/ cmd'[w] = Idle
    <3>1. ASSUME Fetch(w) PROVE Goes(w) \/ \E ok \in BOOLEAN : Finish(w, ok) BY <3>1, Zenon DEF Fetch
    <3>2. ASSUME NEW ok \in BOOLEAN, Finish(w, ok) PROVE cmd'[w] = Idle BY <3>2 DEF Finish, TypeInv, CmdOK
    <3>3. Fetch(w) => Goes(w) \/ cmd'[w] = Idle BY <3>1, <3>2
    <3> QED BY <1>4, <3>3 DEF Ask, Look, CheckoutMain, PullMain, CreateBranch, CheckoutNext, TrackNext
  <2>2. PICK step \in {"ask", "fetch", "look", "lookline", "main", "pull", "branch", "switch", "modules"} : Does(w, step)
    BY <1>4 DEF Ask, Fetch, Look, CheckoutMain, PullMain, CreateBranch, CheckoutNext, TrackNext
  <2> QED BY <1>1, <1>2, <1>3, <2>1, <2>2
<1>5. CASE Merge(w)
  <2>1. Does(w, "merge") /\ Goes(w) /\ head'[w] = head[w] BY <1>5 DEF Merge
  <2>2. head[w] = Main BY <2>1 DEF TypeInv, PlaceOK
  <2> QED BY <1>1, <1>2, <1>3, <2>1, <2>2
<1>6. CASE TagHead(w)
  <2>1. Does(w, "tag") /\ Goes(w) /\ local' = [local EXCEPT ![w][cmd[w].ref] = At(w)] BY <1>6 DEF TagHead
  <2>2. CASE cmd[w].kind = "final"
    <3>1. cmd[w].ref \in Finals BY <2>1, <2>2, KindOfStep DEF TypeInv
    <3>2. head[w] = Main BY <2>1, <2>2 DEF FinalIsMain
    <3>3. At(w) = local[w][Main] BY <3>2, RefsApart DEF At
    <3>4. local'[w][cmd[w].ref] = At(w) /\ local'[w][Main] = local[w][Main]
      BY <2>1, <3>1, RefsApart DEF TypeInv, LocalOK
    <3> QED BY <1>1, <1>2, <1>3, <2>1, <3>3, <3>4
  <2>3. CASE cmd[w].kind = "beta"
    <3>1. Succeeds(w) => cmd'[w] = Idle BY DEF Succeeds, Finish, TypeInv, CmdOK
    <3>2. Succeeds(w) \/ cmd'[w].kind = "beta" BY <2>1, <2>3, BetaAfter DEF TypeInv
    <3> QED BY <1>1, <1>2, <3>1, <3>2
  <2> QED BY <2>1, <2>2, <2>3, KindOfStep DEF TypeInv
<1>7. CASE Push(w)
  <2>1. Goes(w) /\ local' = local BY <1>7 DEF Push
  <2>2. CASE Does(w, "pushmain") /\ Pushes(w, Main)
    <3>1. cmd[w].kind = "final" /\ cmd[w].ref \in Refs BY <2>2, KindOfStep, RefsApart DEF TypeInv
    <3>2. local[w][cmd[w].ref] = local[w][Main] BY <2>2, <3>1 DEF FinalIsMain
    <3>3. local[w][Main] \in Commits /\ origin'[Main] = local[w][Main]
      BY <1>7, <2>2, RefsApart, PushesKeeps DEF TypeInv, Push
    <3>4. Commits' = Commits BY <1>7 DEF Push, Commits
    <3>5. cmd'[w] # Idle => Holds(origin[Main], local[w][cmd[w].ref])'
      <4> SUFFICES ASSUME cmd'[w] # Idle PROVE Holds(origin[Main], local[w][cmd[w].ref])' OBVIOUS
      <4>1. HistOK' BY DEF Keeps, TypeInv
      <4> DEFINE c == local[w][Main]
      <4>2. c \in anc'[c] BY <3>3, <3>4, <4>1 DEF HistOK
      <4>3. cmd'[w].ref = cmd[w].ref
        <5>1. ~Succeeds(w) BY DEF Succeeds, Finish, TypeInv, CmdOK
        <5> QED BY <2>1, <2>2, <3>1, <5>1, FinalAfter DEF TypeInv
      <4>4. local'[w][cmd'[w].ref] = c BY <2>1, <3>2, <4>3
      <4>5. origin'[Main] = c BY <3>3
      <4> HIDE DEF c
      <4> QED BY <4>2, <4>4, <4>5 DEF Holds
    <3>6. local'[w][cmd[w].ref] # 0 BY <2>1, <3>2, <3>3, ZeroIsNone DEF TypeInv
    <3> QED BY <1>1, <1>2, <1>3, <2>1, <2>2, <3>5, <3>6
  <2>3. CASE Does(w, "pushline") \/ Does(w, "pushref")
    BY <1>1, <1>2, <1>3, <2>1, <2>3
  <2> QED BY <1>7, <2>2, <2>3 DEF Push
<1>8. CASE Stops(w)
  <2>1. PICK ok \in BOOLEAN : Finish(w, ok) BY <1>8, Zenon DEF Stops
  <2>2. cmd'[w] = Idle BY <2>1 DEF Finish, TypeInv, CmdOK
  <2> QED BY <1>1, <2>2
<1> QED BY <1>4, <1>5, <1>6, <1>7, <1>8 DEF Steps

LEMMA BeginsAsks ==
  ASSUME CmdOK, NEW w \in Clones, NEW kind, NEW plan, NEW from, NEW ref, Begins(w, kind, plan, from, ref)
  PROVE  /\ cmd'[w].kind = kind /\ cmd'[w].todo = plan /\ cmd'[w].from = from
         /\ cmd'[w].ref = ref /\ cmd'[w].tip = At(w)
         /\ UNCHANGED <<anc, origin, local, head>>
  BY DEF Begins, CmdOK

(* What begins is at its question; users go on in a clone only then.       *)
LEMMA OthersDoNotRelease ==
  ASSUME TypeInv, NEW w \in Clones, Commands(w) \/ Users(w)
  PROVE  FinalIsMain(w)'
<1>1. CASE Users(w)
  <2>1. Free(w) /\ UNCHANGED Others BY <1>1 DEF Users, Work, Switch, PushBranch, PullBranch, DropRef
  <2>2. cmd' = cmd BY <2>1 DEF Others
  <2>3. cmd[w] = Idle \/ Does(w, "ask") BY <2>1 DEF Free
  <2>4. \A step \in {"tag", "pushmain", "pushref"} : ~Does(w, step)' BY <2>2, <2>3 DEF Does, Idle
  <2> QED BY <2>4 DEF FinalIsMain
<1>2. CASE Commands(w)
  <2>1. PICK plan \in {FinalPlan, BetaPlan, NextPlan} : \E kind, from, ref : Begins(w, kind, plan, from, ref)
    BY <1>2 DEF Commands, CutFinal, CutBeta, NextBranch
  <2>2. cmd'[w].todo = plan BY <2>1, BeginsAsks DEF TypeInv
  <2>3. plan[1] = "ask" BY <2>1 DEF FinalPlan, BetaPlan, NextPlan
  <2>4. \A step \in {"tag", "pushmain", "pushref"} : ~Does(w, step)' BY <2>2, <2>3 DEF Does
  <2> QED BY <2>4 DEF FinalIsMain
<1> QED BY <1>1, <1>2

(* Only a release's last call makes its tag seen.                          *)
LEMMA WhoShowsARelease ==
  ASSUME TypeInv, NEW w \in Clones, Commands(w) \/ Steps(w) \/ Users(w),
         NEW t \in Finals, origin[t] = 0, origin'[t] # 0
  PROVE  /\ Does(w, "pushref") /\ cmd[w].kind = "final" /\ cmd[w].ref = t
         /\ origin'[t] = local[w][t] /\ origin'[Main] = origin[Main] /\ UNCHANGED anc
<1>1. origin' # origin OBVIOUS
<1>2. ASSUME NEW r \in Refs, Pushes(w, r), UNCHANGED anc
      PROVE  r = t /\ origin'[t] = local[w][t] /\ origin'[Main] = origin[Main]
  <2>1. origin'[r] = local[w][r] /\ \A q \in Refs \ {r} : origin'[q] = origin[q]
    BY <1>2, PushesKeeps DEF TypeInv
  <2> QED BY <2>1, RefsApart
<1>3. Push(w) \/ PushBranch(w)
  <2>1. Commands(w) => origin' = origin BY DEF Commands, CutFinal, CutBeta, NextBranch, Begins
  <2>2. Users(w) => origin' = origin \/ PushBranch(w) BY DEF Users, Work, Switch, PullBranch, DropRef
  <2>3. Steps(w) => origin' = origin \/ Push(w)
    BY DEF Steps, Ask, Fetch, Look, CheckoutMain, PullMain, Merge, TagHead, CreateBranch, CheckoutNext,
           TrackNext, Stops
  <2> QED BY <1>1, <2>1, <2>2, <2>3
<1>4. ~PushBranch(w)
  <2>1. ASSUME PushBranch(w) PROVE FALSE
    <3>1. PICK r \in Branches : Pushes(w, r) /\ UNCHANGED anc BY <2>1 DEF PushBranch
    <3>2. r \in Refs /\ r # t BY RefsApart
    <3> QED BY <1>2, <3>1, <3>2
  <2> QED BY <2>1
<1>5. UNCHANGED anc BY <1>3, <1>4 DEF Push
<1>6. ~(Does(w, "pushmain") /\ Pushes(w, Main)) BY <1>2, <1>5, RefsApart
<1>7. ~(Does(w, "pushline") /\ Pushes(w, cmd[w].from))
  <2>1. ASSUME Does(w, "pushline"), Pushes(w, cmd[w].from) PROVE FALSE
    <3>1. cmd[w].from \in Branches BY <2>1, KindOfStep DEF TypeInv
    <3>2. cmd[w].from \in Refs /\ cmd[w].from # t BY <3>1, RefsApart
    <3> QED BY <1>2, <1>5, <2>1, <3>2
  <2> QED BY <2>1
<1>8. Does(w, "pushref") /\ Pushes(w, cmd[w].ref) BY <1>3, <1>4, <1>6, <1>7 DEF Push
<1>9. cmd[w].ref \in Refs BY <1>8, KindOfStep, RefsApart DEF TypeInv
<1>10. cmd[w].ref = t /\ origin'[t] = local[w][t] /\ origin'[Main] = origin[Main] BY <1>2, <1>5, <1>8, <1>9
<1>11. cmd[w].kind = "final" BY <1>8, <1>10, KindOfStep, RefsApart DEF TypeInv
<1> QED BY <1>5, <1>8, <1>10, <1>11

LEMMA ReleasesStayOnMain ==
  ASSUME TypeInv, MainInv, NEW w \in Clones, Keeps(w), Commands(w) \/ Steps(w) \/ Users(w)
  PROVE  ReleasesAreOnMain'
<1> SUFFICES ASSUME NEW t \in Finals, origin'[t] # 0 PROVE Holds(origin[Main], origin[t])'
  BY DEF ReleasesAreOnMain
<1>1. t \in Tags /\ t \in Refs BY RefsApart
<1>2. PICK c \in Commits : origin'[t] = c /\ Holds(origin[Main], c)
  <2>1. CASE origin[t] # 0
    <3>1. origin'[t] = origin[t] BY <1>1, <2>1 DEF Keeps, OriginGrows
    <3>2. origin[t] \in Commits BY <1>1, <2>1 DEF TypeInv, OriginOK
    <3>3. Holds(origin[Main], origin[t]) BY <2>1 DEF MainInv, ReleasesAreOnMain
    <3> QED BY <3>1, <3>2, <3>3
  <2>2. CASE origin[t] = 0
    <3>1. Does(w, "pushref") /\ cmd[w].kind = "final" /\ cmd[w].ref = t /\ origin'[t] = local[w][t]
      BY <2>2, WhoShowsARelease
    <3>2. Holds(origin[Main], local[w][t]) /\ local[w][t] # 0 BY <3>1 DEF MainInv, FinalIsMain
    <3>3. local[w][t] \in Commits BY <1>1, <3>2 DEF TypeInv, LocalOK
    <3> QED BY <3>1, <3>2, <3>3
  <2> QED BY <2>1, <2>2
<1>3. Holds(origin[Main], c)' BY <1>2, HeldByMain
<1> QED BY <1>2, <1>3 DEF Holds

LEMMA MainKeeps == ASSUME TypeInv, MainInv, Next PROVE MainInv'
<1>1. PICK w \in Clones : Keeps(w) /\ (Commands(w) \/ Steps(w) \/ Users(w)) BY NextKeeps
<1>2. ReleasesAreOnMain' BY <1>1, ReleasesStayOnMain
<1>3. FinalIsMain(w)' BY <1>1, OwnStaysOnMain, OthersDoNotRelease DEF MainInv
<1>4. \A v \in Clones \ {w} : FinalIsMain(v)'
  BY <1>1, OthersStayOnMain DEF MainInv, Keeps, OnlyOf
<1> QED BY <1>2, <1>3, <1>4 DEF MainInv

LEMMA MainStutters == ASSUME MainInv, UNCHANGED vars PROVE MainInv'
<1>1. ReleasesAreOnMain' BY DEF MainInv, ReleasesAreOnMain, Holds, vars
<1>2. \A w \in Clones : FinalIsMain(w)' BY DEF MainInv, FinalIsMain, Does, Holds, vars
<1> QED BY <1>1, <1>2 DEF MainInv

LEMMA InitOnMain == ASSUME Init PROVE MainInv
<1>1. \A r \in Refs : origin[r] = IF r \in {Main, Tag(1)} THEN 1 ELSE IF r = Dev(2) THEN 2 ELSE 0 BY DEF Init
<1>2. anc[1] = {1} BY DEF Init
<1>3. Dev(2) \in DevLines BY ReleaseAssumption DEF DevLines
<1>4. \A t \in Finals : origin[t] \in {0, 1} BY <1>1, <1>3, RefsApart
<1>5. origin[Main] = 1 BY <1>1, RefsApart
<1>6. ReleasesAreOnMain BY <1>2, <1>4, <1>5 DEF ReleasesAreOnMain, Holds
<1>7. \A w \in Clones : FinalIsMain(w) BY DEF Init, FinalIsMain, Idle
<1> QED BY <1>6, <1>7 DEF MainInv

LEMMA MainInvAlways == Spec => []MainInv
<1>1. ASSUME Init PROVE MainInv BY <1>1, InitOnMain
<1>2. ASSUME TypeInv, MainInv, [Next]_vars PROVE MainInv' BY <1>2, MainKeeps, MainStutters
<1> QED BY <1>1, <1>2, TypeInvAlways, PTL DEF Spec

(* A release that can be seen is on main, wherever the command stopped,    *)
(* whoever pushed in between, and whatever users do while it asks          *)
(* (execute_final_plan: main is pushed before the tag).                    *)
THEOREM ReleasesAreOnMainAlways == Spec => []ReleasesAreOnMain
<1>1. ASSUME MainInv PROVE ReleasesAreOnMain BY <1>1 DEF MainInv
<1> QED BY <1>1, MainInvAlways, PTL

----------------------------------------------------------------------------
(* What a command that reports success has published, when its user leaves *)
(* the clone alone while it asks.                                          *)

(* What origin has of a branch, and what a commit holds, it keeps.         *)
LEMMA HeldByBranch ==
  ASSUME TypeInv, NEW w \in Clones, Keeps(w), NEW r \in Branches, origin[r] # 0, NEW c \in Commits, Holds(origin[r], c)
  PROVE  origin'[r] # 0 /\ Holds(origin[r], c)'
<1>1. origin[r] \in Commits BY RefsApart DEF TypeInv, OriginOK
<1>2. origin'[r] # 0 /\ origin[r] \in anc'[origin'[r]] BY <1>1 DEF Keeps, OriginGrows
<1>3. origin'[r] \in Commits' BY <1>2, RefsApart DEF Keeps, TypeInv, OriginOK
<1>4. c # 0 /\ c \in anc[origin[r]] BY ZeroIsNone DEF TypeInv, Holds
<1>5. c \in anc'[origin[r]] BY <1>1, <1>4 DEF Keeps, HistoryGrows
<1>6. c \in anc'[origin'[r]] BY <1>2, <1>3, <1>5 DEF Keeps, TypeInv, HistOK
<1> QED BY <1>2, <1>6 DEF Holds

LEMMA PublishedStays ==
  ASSUME TypeInv, NEW w \in Clones, Keeps(w), NEW v \in Clones, Published(v), outcome'[v] = outcome[v]
  PROVE  Published(v)'
<1> DEFINE o == outcome[v]
<1>1. ASSUME o.ok, o.kind = "final"
      PROVE  o.tip # 0 /\ origin'[o.ref] # 0 /\ Holds(origin[o.ref], o.tip)'
  <2>1. o.ref \in Tags /\ o.ref \in Refs BY <1>1, RefsApart DEF TypeInv, OutcomeOK
  <2>2. o.tip # 0 /\ origin[o.ref] # 0 /\ Holds(origin[o.ref], o.tip) BY <1>1 DEF Published
  <2>3. origin'[o.ref] = origin[o.ref] BY <2>1, <2>2 DEF Keeps, OriginGrows
  <2>4. origin[o.ref] \in Commits BY <2>1, <2>2 DEF TypeInv, OriginOK
  <2>5. anc'[origin[o.ref]] = anc[origin[o.ref]] BY <2>4 DEF Keeps, HistoryGrows
  <2> QED BY <2>2, <2>3, <2>5 DEF Holds
<1>2. ASSUME o.ok, o.kind = "beta"
      PROVE  origin'[o.from] # 0 /\ origin'[o.ref] # 0 /\ Holds(origin[o.from], origin[o.ref])'
  <2>1. o.ref \in Tags /\ o.ref \in Refs /\ o.from \in Branches BY <1>2, RefsApart DEF TypeInv, OutcomeOK
  <2>2. origin[o.from] # 0 /\ origin[o.ref] # 0 /\ Holds(origin[o.from], origin[o.ref]) BY <1>2 DEF Published
  <2>3. origin'[o.ref] = origin[o.ref] BY <2>1, <2>2 DEF Keeps, OriginGrows
  <2> DEFINE c == origin[o.ref]  r == o.from
  <2>4. c \in Commits BY <2>1, <2>2 DEF TypeInv, OriginOK
  <2>5. PICK d \in Commits, q \in Branches : d = c /\ q = r BY <2>1, <2>4
  <2>6. origin'[q] # 0 /\ Holds(origin[q], d)' BY <2>2, <2>5, HeldByBranch
  <2> QED BY <2>2, <2>3, <2>5, <2>6 DEF Holds
<1> QED BY <1>1, <1>2 DEF Published, Holds

LEMMA OthersHaveLine ==
  ASSUME TypeInv, NEW w \in Clones, Keeps(w), NEW v \in Clones, FinalHasLine(v), BetaHasLine(v),
         cmd'[v] = cmd[v], local'[v] = local[v], head'[v] = head[v]
  PROVE  FinalHasLine(v)' /\ BetaHasLine(v)'
<1> DEFINE c == cmd[v]
<1>1. \A step : Does(v, step)' <=> Does(v, step) BY DEF Does
<1>2. ASSUME NEW a \in Commits, NEW b, Holds(a, b) PROVE Holds(a, b)' BY <1>2, HoldsStays DEF TypeInv, Keeps
<1>3. ASSUME c.kind = "final" PROVE FinalHasLine(v)'
  <2>1. c.tip # 0 BY <1>3 DEF FinalHasLine
  <2>2. \A step \in {"ask", "fetch", "look", "main", "pull", "merge"} : Does(v, step) => local'[v][c.from] = c.tip
    BY <1>3 DEF FinalHasLine
  <2>3. Does(v, "tag") => Holds(local[v][Main], c.tip)'
    <3>1. local[v][Main] \in Commits BY RefsApart DEF TypeInv, LocalOK, HeadOK
    <3>2. Does(v, "tag") => Holds(local[v][Main], c.tip) BY <1>3 DEF FinalHasLine
    <3>3. Does(v, "tag") => c.tip \in anc'[local[v][Main]] BY <1>2, <2>1, <3>1, <3>2 DEF Holds
    <3> QED BY <3>3 DEF Holds
  <2>4. Does(v, "pushmain") \/ Does(v, "pushref") => local[v][c.ref] # 0 /\ Holds(local[v][c.ref], c.tip)'
    <3> SUFFICES ASSUME Does(v, "pushmain") \/ Does(v, "pushref")
                 PROVE  local[v][c.ref] # 0 /\ Holds(local[v][c.ref], c.tip)'
      OBVIOUS
    <3>1. local[v][c.ref] # 0 /\ Holds(local[v][c.ref], c.tip) BY <1>3 DEF FinalHasLine
    <3>2. c.ref \in Refs BY KindOfStep, RefsApart DEF TypeInv
    <3>3. local[v][c.ref] \in Commits BY <3>1, <3>2 DEF TypeInv, LocalOK
    <3>4. c.tip \in anc'[local[v][c.ref]] BY <1>2, <2>1, <3>1, <3>3 DEF Holds
    <3> QED BY <3>1, <3>4 DEF Holds
  <2> QED BY <1>1, <2>1, <2>2, <2>3, <2>4 DEF FinalHasLine
<1>4. ASSUME c.kind = "beta" PROVE BetaHasLine(v)'
  <2>1. head'[v] = c.from BY <1>4 DEF BetaHasLine
  <2>2. Does(v, "pushline") => local'[v][c.ref] = local'[v][c.from] BY <1>4 DEF BetaHasLine
  <2>3. Does(v, "pushref") => /\ local[v][c.ref] # 0 /\ origin'[c.from] # 0
                              /\ Holds(origin[c.from], local[v][c.ref])'
    <3> SUFFICES ASSUME Does(v, "pushref")
                 PROVE  local[v][c.ref] # 0 /\ origin'[c.from] # 0 /\ Holds(origin[c.from], local[v][c.ref])'
      OBVIOUS
    <3>1. local[v][c.ref] # 0 /\ origin[c.from] # 0 /\ Holds(origin[c.from], local[v][c.ref])
      BY <1>4 DEF BetaHasLine
    <3>2. c.ref \in Refs /\ c.from \in Branches BY <1>4, KindOfStep, RefsApart DEF TypeInv
    <3>3. PICK d \in Commits, r \in Branches : d = local[v][c.ref] /\ r = c.from
      BY <3>1, <3>2 DEF TypeInv, LocalOK
    <3>4. origin'[r] # 0 /\ Holds(origin[r], d)' BY <3>1, <3>3, HeldByBranch
    <3> QED BY <3>1, <3>3, <3>4 DEF Holds
  <2> QED BY <1>1, <2>1, <2>2, <2>3 DEF BetaHasLine
<1> QED BY <1>3, <1>4 DEF FinalHasLine, BetaHasLine

(* The calls of a final release.                                           *)
LEMMA FinalCall ==
  ASSUME TypeInv, NEW w \in Clones, Keeps(w), cmd[w].kind = "final", FinalHasLine(w), Published(w),
         NEW step, Does(w, step), Goes(w),
         step \in {"ask", "fetch", "look", "main", "pull"} => local'[w][cmd[w].from] = local[w][cmd[w].from],
         step = "merge" => cmd[w].tip \in anc'[local'[w][Main]],
         step = "tag" => local'[w][cmd[w].ref] = local[w][Main],
         step \in {"pushmain", "pushref"} => local'[w] = local[w],
         step = "pushref" => origin'[cmd[w].ref] = local[w][cmd[w].ref]
  PROVE  FinalHasLine(w)' /\ BetaHasLine(w)' /\ Published(w)'
<1> DEFINE c == cmd[w]
<1>1. c.tip # 0 /\ c.ref \in Finals /\ c.ref \in Refs /\ c.from \in DevLines
  BY KindOfStep, RefsApart DEF FinalHasLine, TypeInv
<1>2. ASSUME NEW a \in Commits, c.tip \in anc[a] PROVE c.tip \in anc'[a]
  BY <1>2 DEF Keeps, HistoryGrows
<1>3. CASE Succeeds(w) /\ step = "pushref"
  <2>1. cmd'[w] = Idle /\ outcome'[w] = [kind |-> c.kind, ok |-> TRUE, from |-> c.from, ref |-> c.ref, tip |-> c.tip]
    BY <1>3 DEF Succeeds, Finish, TypeInv, CmdOK, OutcomeOK
  <2>2. FinalHasLine(w)' /\ BetaHasLine(w)' BY <2>1 DEF FinalHasLine, BetaHasLine, Idle
  <2>3. local[w][c.ref] # 0 /\ Holds(local[w][c.ref], c.tip) BY <1>3 DEF FinalHasLine
  <2>4. local[w][c.ref] \in Commits BY <1>1, <2>3 DEF TypeInv, LocalOK
  <2>5. c.tip \in anc'[local[w][c.ref]] BY <1>1, <1>2, <2>3, <2>4 DEF Holds
  <2>6. origin'[c.ref] = local[w][c.ref] BY <1>3
  <2>7. outcome'[w].kind = "final" /\ outcome'[w].ref = c.ref /\ outcome'[w].tip = c.tip BY <2>1
  <2>8. Published(w)' BY <1>1, <2>3, <2>5, <2>6, <2>7 DEF Published, Holds
  <2> QED BY <2>2, <2>8
<1>4. CASE ~(Succeeds(w) /\ step = "pushref")
  <2>1. /\ outcome' = outcome /\ cmd'[w].kind = "final" /\ cmd'[w].from = c.from
        /\ cmd'[w].ref = c.ref /\ cmd'[w].tip = c.tip
        /\ \A s \in {"ask", "fetch", "look", "main", "pull", "merge"} :
              Does(w, s)' => step \in {"ask", "fetch", "look", "main", "pull"}
        /\ Does(w, "tag")' => step = "merge"
        /\ Does(w, "pushmain")' => step = "tag"
        /\ Does(w, "pushref")' => step = "pushmain"
    BY <1>4, FinalAfter DEF TypeInv
  <2>2. Published(w)' BY <2>1, PublishedStays
  <2>3. BetaHasLine(w)' BY <2>1 DEF BetaHasLine
  <2>4. \A s \in {"ask", "fetch", "look", "main", "pull", "merge"} : Does(w, s)' => local'[w][c.from] = c.tip
    <3>1. step \in {"ask", "fetch", "look", "main", "pull"} => local[w][c.from] = c.tip BY DEF FinalHasLine
    <3> QED BY <2>1, <3>1
  <2>5. Does(w, "tag")' => Holds(local[w][Main], cmd[w].tip)' BY <2>1 DEF Holds
  <2>6. step = "tag" => local'[w][c.ref] # 0 /\ c.tip \in anc'[local'[w][c.ref]]
    <3>1. local[w][Main] \in Commits /\ local[w][Main] # 0 BY RefsApart DEF TypeInv, LocalOK, HeadOK
    <3>2. step = "tag" => Holds(local[w][Main], c.tip) BY DEF FinalHasLine
    <3> QED BY <1>1, <1>2, <3>1, <3>2 DEF Holds
  <2>7. step = "pushmain" => local'[w][c.ref] # 0 /\ c.tip \in anc'[local'[w][c.ref]]
    <3>1. step = "pushmain" => local[w][c.ref] # 0 /\ Holds(local[w][c.ref], c.tip) BY DEF FinalHasLine
    <3>2. step = "pushmain" => local[w][c.ref] \in Commits BY <1>1, <3>1 DEF TypeInv, LocalOK
    <3> QED BY <1>1, <1>2, <3>1, <3>2 DEF Holds
  <2>8. Does(w, "pushmain")' \/ Does(w, "pushref")' =>
            local'[w][cmd'[w].ref] # 0 /\ Holds(local[w][cmd[w].ref], cmd[w].tip)'
    BY <2>1, <2>6, <2>7 DEF Holds
  <2>9. FinalHasLine(w)' BY <1>1, <2>1, <2>4, <2>5, <2>8 DEF FinalHasLine
  <2> QED BY <2>2, <2>3, <2>9
<1> QED BY <1>3, <1>4

(* The calls of a beta.                                                    *)
LEMMA BetaCall ==
  ASSUME TypeInv, NEW w \in Clones, Keeps(w), cmd[w].kind = "beta", BetaHasLine(w), Published(w),
         NEW step, Does(w, step), Goes(w), head'[w] = head[w],
         step = "tag" => local'[w][cmd[w].ref] = local[w][cmd[w].from] /\ local'[w][cmd[w].from] = local[w][cmd[w].from],
         step \in {"pushline", "pushref"} => local'[w] = local[w] /\ anc' = anc,
         step = "pushline" => origin'[cmd[w].from] = local[w][cmd[w].from] /\ local[w][cmd[w].from] \in Commits,
         step = "pushref" => /\ origin'[cmd[w].ref] = local[w][cmd[w].ref]
                             /\ origin'[cmd[w].from] = origin[cmd[w].from]
  PROVE  FinalHasLine(w)' /\ BetaHasLine(w)' /\ Published(w)'
<1> DEFINE c == cmd[w]
<1>1. c.ref \in Betas /\ c.ref \in Refs /\ c.from \in Branches BY KindOfStep, RefsApart DEF TypeInv
<1>2. CASE Succeeds(w) /\ step = "pushref"
  <2>1. cmd'[w] = Idle /\ outcome'[w] = [kind |-> c.kind, ok |-> TRUE, from |-> c.from, ref |-> c.ref, tip |-> c.tip]
    BY <1>2 DEF Succeeds, Finish, TypeInv, CmdOK, OutcomeOK
  <2>2. FinalHasLine(w)' /\ BetaHasLine(w)' BY <2>1 DEF FinalHasLine, BetaHasLine, Idle
  <2>3. local[w][c.ref] # 0 /\ origin[c.from] # 0 /\ Holds(origin[c.from], local[w][c.ref]) BY <1>2 DEF BetaHasLine
  <2>4. origin'[c.ref] = local[w][c.ref] /\ origin'[c.from] = origin[c.from] /\ anc' = anc BY <1>2
  <2>5. outcome'[w].kind = "beta" /\ outcome'[w].ref = c.ref /\ outcome'[w].from = c.from BY <2>1
  <2>6. Published(w)' BY <2>3, <2>4, <2>5 DEF Published, Holds
  <2> QED BY <2>2, <2>6
<1>3. CASE ~(Succeeds(w) /\ step = "pushref")
  <2>1. /\ outcome' = outcome /\ cmd'[w].kind = "beta" /\ cmd'[w].from = c.from /\ cmd'[w].ref = c.ref
        /\ Does(w, "pushline")' => step = "tag"
        /\ Does(w, "pushref")' => step = "pushline"
    BY <1>3, BetaAfter DEF TypeInv
  <2>2. Published(w)' BY <2>1, PublishedStays
  <2>3. FinalHasLine(w)' BY <2>1 DEF FinalHasLine
  <2>4. head'[w] = cmd'[w].from BY <2>1 DEF BetaHasLine
  <2>5. Does(w, "pushline")' => local'[w][cmd'[w].ref] = local'[w][cmd'[w].from] BY <2>1
  <2>6. step = "pushline" => /\ local'[w][c.ref] # 0 /\ origin'[c.from] # 0
                             /\ local'[w][c.ref] \in anc'[origin'[c.from]]
    <3> SUFFICES ASSUME step = "pushline"
                 PROVE  /\ local'[w][c.ref] # 0 /\ origin'[c.from] # 0
                        /\ local'[w][c.ref] \in anc'[origin'[c.from]]
      OBVIOUS
    <3>1. local[w][c.ref] = local[w][c.from] BY DEF BetaHasLine
    <3>2. local[w][c.from] \in Commits /\ local[w][c.from] # 0 BY ZeroIsNone DEF TypeInv
    <3>3. local[w][c.from] \in anc[local[w][c.from]] BY <3>2 DEF TypeInv, HistOK
    <3> QED BY <3>1, <3>2, <3>3
  <2>7. Does(w, "pushref")' => /\ local'[w][cmd'[w].ref] # 0 /\ origin'[cmd'[w].from] # 0
                               /\ Holds(origin[cmd[w].from], local[w][cmd[w].ref])'
    BY <2>1, <2>6 DEF Holds
  <2> QED BY <2>1, <2>2, <2>3, <2>4, <2>5, <2>7 DEF BetaHasLine
<1> QED BY <1>2, <1>3

LEMMA FailureHasNothing ==
  ASSUME TypeInv, NEW w \in Clones, Finish(w, FALSE) PROVE FinalHasLine(w)' /\ BetaHasLine(w)' /\ Published(w)'
<1>1. cmd'[w] = Idle /\ outcome'[w].ok = FALSE BY DEF Finish, TypeInv, CmdOK, OutcomeOK
<1> QED BY <1>1 DEF FinalHasLine, BetaHasLine, Published, Idle

LEMMA NextCall ==
  ASSUME TypeInv, NEW w \in Clones, Keeps(w), cmd[w].kind = "next", Published(w), NEW step, Does(w, step), Goes(w)
  PROVE  FinalHasLine(w)' /\ BetaHasLine(w)' /\ Published(w)'
<1>1. CASE Succeeds(w)
  <2>1. cmd'[w] = Idle /\ outcome'[w].kind = "next" BY <1>1 DEF Succeeds, Finish, TypeInv, CmdOK, OutcomeOK
  <2> QED BY <2>1 DEF FinalHasLine, BetaHasLine, Published, Idle
<1>2. CASE outcome' = outcome /\ cmd'[w].kind = "next"
  <2>1. Published(w)' BY <1>2, PublishedStays
  <2> QED BY <1>2, <2>1 DEF FinalHasLine, BetaHasLine
<1> QED BY <1>1, <1>2, NextStaysNext DEF TypeInv

LEMMA StepsHaveLine ==
  ASSUME TypeInv, MainInv, NEW w \in Clones, Keeps(w), FinalHasLine(w), BetaHasLine(w), Published(w), Steps(w)
  PROVE  FinalHasLine(w)' /\ BetaHasLine(w)' /\ Published(w)'
<1> DEFINE Has == FinalHasLine(w)' /\ BetaHasLine(w)' /\ Published(w)'
<1>1. ASSUME NEW step \in {"ask", "fetch", "look", "lookline", "main", "pull", "branch", "switch", "modules"},
             Does(w, step), Goes(w),
             step \in {"ask", "fetch", "look", "main", "pull"} /\ cmd[w].kind = "final" =>
                local'[w][cmd[w].from] = local[w][cmd[w].from],
             cmd[w].kind = "beta" => head'[w] = head[w]
      PROVE  Has
  <2>1. cmd[w].kind \in {"final", "beta", "next"} BY <1>1, KindOfStep DEF TypeInv
  <2>2. CASE cmd[w].kind = "final" BY <1>1, <2>2, FinalCall
  <2>3. CASE cmd[w].kind = "beta" BY <1>1, <2>3, BetaCall
  <2>4. CASE cmd[w].kind = "next" BY <1>1, <2>4, NextCall
  <2> QED BY <2>1, <2>2, <2>3, <2>4
<1>2. CASE Ask(w) \/ Look(w)
  <2>1. Goes(w) /\ local' = local /\ head' = head BY <1>2 DEF Ask, Look
  <2>2. PICK step \in {"ask", "look", "lookline"} : Does(w, step) BY <1>2 DEF Ask, Look
  <2> QED BY <1>1, <2>1, <2>2
<1>3. CASE Fetch(w)
  <2>1. head' = head /\ \A r \in Branches : local'[w][r] = local[w][r] BY <1>3, FetchedRefs
  <2>2. Does(w, "fetch") BY <1>3 DEF Fetch
  <2>3. cmd[w].kind = "final" => cmd[w].from \in Branches BY <2>2, KindOfStep, RefsApart DEF TypeInv
  <2>4. ASSUME Goes(w) PROVE Has BY <1>1, <2>1, <2>2, <2>3, <2>4
  <2>5. ASSUME Finish(w, FALSE) PROVE Has BY <2>5, FailureHasNothing
  <2>6. Goes(w) \/ Finish(w, FALSE) BY <1>3, Zenon DEF Fetch
  <2> QED BY <2>4, <2>5, <2>6
<1>4. CASE CheckoutMain(w)
  <2>1. Does(w, "main") /\ Goes(w) /\ local' = local BY <1>4 DEF CheckoutMain
  <2>2. cmd[w].kind = "final" BY <2>1, KindOfStep DEF TypeInv
  <2> QED BY <1>1, <2>1, <2>2
<1>5. CASE PullMain(w)
  <2>1. Does(w, "pull") /\ Goes(w) BY <1>5 DEF PullMain
  <2>2. cmd[w].kind = "final" /\ cmd[w].from \in DevLines BY <2>1, KindOfStep DEF TypeInv
  <2>3. PICK c : local' = [local EXCEPT ![w][Main] = c] BY <1>5 DEF PullMain
  <2>4. local'[w][cmd[w].from] = local[w][cmd[w].from] BY <2>2, <2>3, RefsApart DEF TypeInv, LocalOK
  <2> QED BY <1>1, <2>1, <2>2, <2>4
<1>6. CASE CreateBranch(w) \/ CheckoutNext(w) \/ TrackNext(w)
  <2>1. PICK step \in {"branch", "switch", "modules"} : Does(w, step)
    BY <1>6 DEF CreateBranch, CheckoutNext, TrackNext
  <2>2. Goes(w) BY <1>6 DEF CreateBranch, CheckoutNext, TrackNext
  <2>3. cmd[w].kind = "next" BY <2>1, KindOfStep DEF TypeInv
  <2> QED BY <2>1, <2>2, <2>3, NextCall
<1>7. CASE Merge(w)
  <2>1. Does(w, "merge") /\ Goes(w) BY <1>7 DEF Merge
  <2>2. cmd[w].kind = "final" BY <2>1, KindOfStep DEF TypeInv
  <2>3. local[w][cmd[w].from] = cmd[w].tip BY <2>1, <2>2 DEF FinalHasLine
  <2>4. PICK c \in Commits' : local' = [local EXCEPT ![w][Main] = c] /\ cmd[w].tip \in anc'[c]
    BY <1>7, <2>3, MergesTo
  <2>5. local'[w][Main] = c BY <2>4, RefsApart DEF TypeInv, LocalOK
  <2>6. cmd[w].tip \in anc'[local'[w][Main]] BY <2>4, <2>5
  <2> QED BY <2>1, <2>2, <2>6, FinalCall
<1>8. CASE TagHead(w)
  <2>1. Does(w, "tag") /\ Goes(w) /\ local' = [local EXCEPT ![w][cmd[w].ref] = At(w)] /\ head' = head
    BY <1>8 DEF TagHead
  <2>2. cmd[w].ref \in Tags /\ cmd[w].ref \in Refs BY <2>1, KindOfStep, RefsApart DEF TypeInv
  <2>3. local'[w][cmd[w].ref] = At(w) /\ \A r \in Branches : local'[w][r] = local[w][r]
    BY <2>1, <2>2, RefsApart DEF TypeInv, LocalOK
  <2>4. CASE cmd[w].kind = "final"
    <3>1. head[w] = Main BY <2>1, <2>4 DEF MainInv, FinalIsMain
    <3>2. At(w) = local[w][Main] BY <3>1, RefsApart DEF At
    <3> QED BY <2>1, <2>3, <2>4, <3>2, FinalCall
  <2>5. CASE cmd[w].kind = "beta"
    <3>1. cmd[w].from \in Branches BY <2>1, <2>5, KindOfStep DEF TypeInv
    <3>2. head[w] = cmd[w].from BY <2>5 DEF BetaHasLine
    <3>3. At(w) = local[w][cmd[w].from] BY <3>1, <3>2 DEF At
    <3> QED BY <2>1, <2>3, <2>5, <3>1, <3>3, BetaCall
  <2> QED BY <2>1, <2>4, <2>5, KindOfStep DEF TypeInv
<1>9. CASE Push(w)
  <2>1. Goes(w) /\ UNCHANGED <<anc, local, head>> BY <1>9 DEF Push
  <2>2. CASE Does(w, "pushmain") /\ Pushes(w, Main)
    <3>1. cmd[w].kind = "final" BY <2>2, KindOfStep DEF TypeInv
    <3> QED BY <2>1, <2>2, <3>1, FinalCall
  <2>3. CASE Does(w, "pushline") /\ Pushes(w, cmd[w].from)
    <3>1. cmd[w].kind = "beta" /\ cmd[w].from \in Refs BY <2>3, KindOfStep, RefsApart DEF TypeInv
    <3>2. local[w][cmd[w].from] \in Commits /\ origin'[cmd[w].from] = local[w][cmd[w].from]
      BY <2>1, <2>3, <3>1, PushesKeeps DEF TypeInv
    <3> QED BY <2>1, <2>3, <3>1, <3>2, BetaCall
  <2>4. CASE Does(w, "pushref") /\ Pushes(w, cmd[w].ref)
    <3>1. cmd[w].ref \in Refs BY <2>4, KindOfStep, RefsApart DEF TypeInv
    <3>2. origin'[cmd[w].ref] = local[w][cmd[w].ref] /\ \A q \in Refs \ {cmd[w].ref} : origin'[q] = origin[q]
      BY <2>1, <2>4, <3>1, PushesKeeps DEF TypeInv
    <3>3. CASE cmd[w].kind = "final" BY <2>1, <2>4, <3>2, <3>3, FinalCall
    <3>4. CASE cmd[w].kind = "beta"
      <4>1. cmd[w].from \in Branches /\ cmd[w].ref \in Betas BY <2>4, <3>4, KindOfStep DEF TypeInv
      <4>2. origin'[cmd[w].from] = origin[cmd[w].from] BY <3>2, <4>1, RefsApart
      <4> QED BY <2>1, <2>4, <3>2, <3>4, <4>2, BetaCall
    <3>5. CASE cmd[w].kind = "next" BY <2>1, <2>4, <3>5, NextCall
    <3> QED BY <2>4, <3>3, <3>4, <3>5, KindOfStep DEF TypeInv
  <2> QED BY <1>9, <2>2, <2>3, <2>4 DEF Push
<1>10. CASE Stops(w)
  <2>1. Finish(w, FALSE) BY <1>10, Zenon DEF Stops
  <2> QED BY <2>1, FailureHasNothing
<1> QED BY <1>2, <1>3, <1>4, <1>5, <1>6, <1>7, <1>8, <1>9, <1>10 DEF Steps

(* A command begins with the line that its user is on.                     *)
LEMMA CommandsHaveLine ==
  ASSUME TypeInv, NEW w \in Clones, Keeps(w), Commands(w)
  PROVE  FinalHasLine(w)' /\ BetaHasLine(w)' /\ Published(w)'
<1>1. \A step \in {"tag", "pushmain", "pushline", "pushref"} : ~Does(w, step)'
  <2>1. PICK plan \in {FinalPlan, BetaPlan, NextPlan} : \E kind, from, ref : Begins(w, kind, plan, from, ref)
    BY DEF Commands, CutFinal, CutBeta, NextBranch
  <2>2. cmd'[w].todo = plan BY <2>1, BeginsAsks DEF TypeInv
  <2>3. plan[1] = "ask" BY <2>1 DEF FinalPlan, BetaPlan, NextPlan
  <2> QED BY <2>2, <2>3 DEF Does
<1>2. Published(w)'
  <2>1. outcome' = [outcome EXCEPT ![w] = NoOutcome] BY DEF Commands, CutFinal, CutBeta, NextBranch, Begins
  <2>2. outcome'[w].ok = FALSE BY <2>1 DEF TypeInv, OutcomeOK, NoOutcome
  <2> QED BY <2>2 DEF Published
<1>3. CASE CutFinal(w)
  <2>1. PICK k \in Lines : head[w] = Dev(k) /\ Begins(w, "final", FinalPlan, Dev(k), Tag(k)) BY <1>3 DEF CutFinal
  <2>2. cmd'[w].kind = "final" /\ cmd'[w].from = Dev(k) /\ cmd'[w].tip = At(w) /\ local' = local
    BY <2>1, BeginsAsks DEF TypeInv
  <2>3. Dev(k) \in Branches BY RefsApart DEF DevLines
  <2>4. At(w) = local[w][Dev(k)] BY <2>1, <2>3 DEF At
  <2>5. At(w) # 0 BY AtIsCommit, ZeroIsNone DEF TypeInv
  <2> QED BY <1>1, <1>2, <2>2, <2>4, <2>5 DEF FinalHasLine, BetaHasLine
<1>4. CASE CutBeta(w)
  <2>1. PICK ref : Begins(w, "beta", BetaPlan, head[w], ref) BY <1>4 DEF CutBeta
  <2>2. cmd'[w].kind = "beta" /\ cmd'[w].from = head[w] /\ head' = head BY <2>1, BeginsAsks DEF TypeInv
  <2> QED BY <1>1, <1>2, <2>2 DEF FinalHasLine, BetaHasLine
<1>5. CASE NextBranch(w)
  <2>1. PICK ref : Begins(w, "next", NextPlan, <<>>, ref) BY <1>5 DEF NextBranch
  <2>2. cmd'[w].kind = "next" BY <2>1, BeginsAsks DEF TypeInv
  <2> QED BY <1>2, <2>2 DEF FinalHasLine, BetaHasLine
<1> QED BY <1>3, <1>4, <1>5 DEF Commands

LEMMA UsersHaveLine ==
  ASSUME ~Meanwhile, TypeInv, NEW w \in Clones, Keeps(w), Published(w), Users(w)
  PROVE  FinalHasLine(w)' /\ BetaHasLine(w)' /\ Published(w)'
<1>1. Free(w) /\ UNCHANGED Others BY DEF Users, Work, Switch, PushBranch, PullBranch, DropRef
<1>2. cmd'[w] = Idle /\ outcome' = outcome BY <1>1 DEF Free, Others
<1>3. Published(w)' BY <1>2, PublishedStays
<1> QED BY <1>2, <1>3 DEF FinalHasLine, BetaHasLine, Idle

LEMMA LineKeeps == ASSUME ~Meanwhile, TypeInv, MainInv, LineInv, Next PROVE LineInv'
<1>1. PICK w \in Clones : Keeps(w) /\ (Commands(w) \/ Steps(w) \/ Users(w)) BY NextKeeps
<1>2. FinalHasLine(w) /\ BetaHasLine(w) /\ Published(w) BY DEF LineInv
<1>3. FinalHasLine(w)' /\ BetaHasLine(w)' /\ Published(w)'
  BY <1>1, <1>2, CommandsHaveLine, StepsHaveLine, UsersHaveLine
<1>4. ASSUME NEW v \in Clones \ {w} PROVE FinalHasLine(v)' /\ BetaHasLine(v)' /\ Published(v)'
  <2>1. cmd'[v] = cmd[v] /\ outcome'[v] = outcome[v] /\ local'[v] = local[v] /\ head'[v] = head[v]
    BY <1>1 DEF Keeps, OnlyOf
  <2>2. FinalHasLine(v) /\ BetaHasLine(v) /\ Published(v) BY DEF LineInv
  <2> QED BY <1>1, <2>1, <2>2, OthersHaveLine, PublishedStays
<1> QED BY <1>3, <1>4 DEF LineInv

LEMMA LineStutters == ASSUME LineInv, UNCHANGED vars PROVE LineInv'
<1>1. \A w \in Clones : FinalHasLine(w)' BY DEF LineInv, FinalHasLine, Does, Holds, vars
<1>2. \A w \in Clones : BetaHasLine(w)' BY DEF LineInv, BetaHasLine, Does, Holds, vars
<1>3. \A w \in Clones : Published(w)' BY DEF LineInv, Published, Holds, vars
<1> QED BY <1>1, <1>2, <1>3 DEF LineInv

(* A command that reports success has published what its user had before   *)
(* him, when nobody works on in a clone that waits for an answer: a final  *)
(* release holds the line, a beta is on the branch pushed with it          *)
(* (execute_final_plan, execute_beta_plan).  Without the hypothesis it is  *)
(* not so: the branch that the plan showed may have moved on since.        *)
THEOREM SuccessIsPublishedAlways == ASSUME ~Meanwhile PROVE Spec => []SuccessIsPublished
<1>1. ASSUME Init PROVE LineInv
  <2>1. \A w \in Clones : cmd[w].kind = "none" /\ outcome[w].ok = FALSE BY <1>1 DEF Init, Idle, NoOutcome
  <2> QED BY <2>1 DEF LineInv, FinalHasLine, BetaHasLine, Published
<1>2. ASSUME TypeInv, MainInv, LineInv, [Next]_vars PROVE LineInv' BY <1>2, LineKeeps, LineStutters
<1>3. ASSUME LineInv PROVE SuccessIsPublished BY <1>3 DEF LineInv, Published, SuccessIsPublished
<1>4. Spec => []MainInv BY MainInvAlways
<1> QED BY <1>1, <1>2, <1>3, <1>4, TypeInvAlways, PTL DEF Spec
==============================================================================
