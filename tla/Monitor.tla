------------------------------ MODULE Monitor ------------------------------
(***************************************************************************)
(* The lists of display modes: what RHDMonitorInit builds from AtomBIOS,   *)
(* an EDID block or the user's EDID, the copies that rhdSetupCrtcModes     *)
(* gives the CRTCs, the numbers a nub gives them, and their release        *)
(* (src/rhd/rhd_monitor.c, rhd_edid.c, rhd_modes.c, rhd_driver.c,          *)
(* src/RadeonHD.cpp).                                                      *)
(*                                                                         *)
(* A mode is a cell of cells, named by its place there, 0 for NULL; of its *)
(* contents only the size <<width, height>> is kept.  Refresh ranges,      *)
(* names and timings are left out.                                         *)
(***************************************************************************)
EXTENDS Integers, SequencesExt

CONSTANTS Layouts,        \* [outs, opts, edids, modes]: see LayoutAssumption
          SynthList       \* resolution_list

NULL == 0
NoSize == <<0, 0>>
NoEdid == [none |-> TRUE]
Sizes == Nat \X Nat
Kinds == {"PANEL", "TV", "DDC", "none"}   \* where the connector's monitor tells its modes

(* The active candidates in list order, isInternalOutput of each, the two  *)
(* EDIDs of the user with the outputs whose name they match; and what the  *)
(* monitors may answer: EDID blocks, and modes AtomBIOS may know.          *)
ASSUME LayoutAssumption ==
  \A l \in Layouts :
    /\ l.outs \in Seq([kind : Kinds, internal : BOOLEAN])
    /\ \A i \in DOMAIN l.opts : /\ l.opts[i].match \subseteq DOMAIN l.outs
                                /\ l.opts[i].edid \in l.edids /\ l.opts[i].fixed \in BOOLEAN
    /\ l.modes \subseteq Sizes \ {NoSize}
ASSUME SynthAssumption == SynthList \in Seq(Sizes)

VARIABLES layout, cells, mons, checked, active, crtcs, lost, phase
vars == <<layout, cells, mons, checked, active, crtcs, lost, phase>>

NoMonitor == [there |-> FALSE, modes |-> NULL, native |-> NULL, fixed |-> FALSE,
              mode |-> NoSize, edid |-> NoEdid]
NoCrtc == [modes |-> NULL, current |-> NULL, scaled |-> NULL, from |-> 0, up |-> FALSE]
-----------------------------------------------------------------------------
(* Lists.  h is the memory; Chain follows next, and gives up when it has   *)
(* seen more modes than there are.                                         *)
NewMode(h, size) ==
  Append(h, [size |-> size, next |-> NULL, prev |-> NULL, modeID |-> 0, frees |-> 0])

Chain(h, first) ==
  LET at[k \in 1..Len(h) + 1] ==
        IF k = 1 THEN first ELSE IF at[k - 1] = NULL THEN NULL ELSE h[at[k - 1]].next
  IN  SelectSeq([k \in 1..Len(h) + 1 |-> at[k]], LAMBDA c : c # NULL)

ModesAdd(h, modes, additions) ==
  IF modes = NULL \/ additions = NULL
  THEN [cells |-> h, modes |-> IF modes = NULL THEN additions ELSE modes]
  ELSE LET last == Last(Chain(h, modes))
       IN  [cells |-> [h EXCEPT ![last].next = additions, ![additions].prev = last],
            modes |-> modes]

AddNew(l, size) ==
  LET h == NewMode(l.cells, size) IN ModesAdd(h, l.modes, Len(h))
ModesFrom(h, sizes) == FoldLeft(AddNew, [cells |-> h, modes |-> NULL], sizes)
-----------------------------------------------------------------------------
(* A monitor in the making is [cells, mon].                                *)
(* A detailed section is a timing, good if it is neither stereo nor of     *)
(* composite sync, a list of standard timings, or something else.  Of five *)
(* standard timings of a section eight are read: the sizes given may be    *)
(* more than the monitor meant.                                            *)
AddDetailed(s, d, preferred) ==
  LET l == AddNew(s, d.size)
  IN  [cells |-> l.cells, modes |-> l.modes, preferred |-> preferred,
       native |-> IF s.preferred THEN Len(l.cells) ELSE s.native]
AddList(s, l) ==
  LET all == ModesAdd(l.cells, s.modes, l.modes)
  IN  [s EXCEPT !.cells = all.cells, !.modes = all.modes]
AddStandard(s, sizes) == AddList(s, ModesFrom(s.cells, sizes))
DetailedKeepsPreferred(s, d) ==      \* mutant: preferred is not cleared
  CASE d.type = "DT" /\ d.good -> AddDetailed(s, d, s.preferred)
    [] d.type = "STD" -> AddStandard(s, d.sizes)
    [] OTHER -> s
DetailedSection(s, d) ==
  CASE d.type = "DT" /\ d.good -> AddDetailed(s, d, FALSE)
    [] d.type = "STD" -> AddStandard(s, d.sizes)
    [] OTHER -> s

Blank(m, e) ==
  [cells |-> m.cells, modes |-> NULL, native |-> m.mon.native, preferred |-> e.preferred]
AddModes(m, s) ==
  LET all == ModesAdd(s.cells, m.mon.modes, s.modes)
  IN  [cells |-> all.cells, mon |-> [m.mon EXCEPT !.modes = all.modes, !.native = s.native]]
EDIDSet(m, e) ==
  AddModes(m, FoldLeft(DetailedSection,
                       AddStandard(AddStandard(Blank(m, e), e.established), e.standard),
                       e.detailed))

Bigger(a, b) == a[1] < b[1] \/ (a[1] = b[1] /\ a[2] < b[2])
PanelEDIDModesFilter(m) ==
  LET list == Chain(m.cells, m.mon.modes)
      best == FoldLeft(LAMBDA x, y : IF Bigger(m.cells[x].size, m.cells[y].size) THEN y ELSE x,
                       list[1], list)
  IN  IF Len(list) < 2 \/ m.mon.native # NULL THEN m ELSE [m EXCEPT !.mon.native = best]

ExistMode(h, size, modes) == \E c \in ToSet(Chain(h, modes)) : h[c].size = size
NotBelow(size, native) == size[1] >= native[1] /\ size[2] >= native[2]
SynthModes(m) ==
  LET native == m.cells[m.mon.native].size
      Synth(h, size) ==
        IF NotBelow(size, native) \/ ExistMode(h, size, m.mon.modes) THEN h
        ELSE AddNew([cells |-> h, modes |-> m.mon.modes], size).cells
  IN  [m EXCEPT !.cells = FoldLeft(Synth, @, SynthList)]
SynthIfNative(m) == IF m.mon.native = NULL THEN m ELSE SynthModes(m)

(* w is what the world answers: an EDID block over DDC or from AtomBIOS,   *)
(* and a mode from AtomBIOS for a panel or a TV.                           *)
Fresh(h, w) == [cells |-> h, mon |-> [NoMonitor EXCEPT !.there = TRUE, !.edid = w.edid]]
Unknown(h) == [cells |-> h, mon |-> NoMonitor]
KnownMode(h, w) ==
  LET l == ModesFrom(h, <<w.mode>>)
  IN  [cells |-> l.cells,
       mon |-> [Fresh(h, w).mon EXCEPT !.modes = l.modes, !.native = l.modes, !.mode = w.mode]]
Fixed(m) == [m EXCEPT !.mon.fixed = TRUE]

MonitorPanel(h, w) ==
  CASE w.mode # NoSize -> Fixed(SynthIfNative(KnownMode(h, w)))
    [] w.mode = NoSize /\ w.edid # NoEdid ->
         Fixed(SynthIfNative(PanelEDIDModesFilter(EDIDSet(Fresh(h, w), w.edid))))
    [] OTHER -> Unknown(h)
MonitorTV(h, w) == IF w.mode = NoSize THEN Unknown(h) ELSE Fixed(KnownMode(h, [w EXCEPT !.edid = NoEdid]))
MonitorDDC(h, w) == IF w.edid = NoEdid THEN Unknown(h) ELSE EDIDSet(Fresh(h, w), w.edid)

UserMonitor(h, kind, opt) ==
  LET m == EDIDSet(Fresh(h, [edid |-> opt.edid]), opt.edid)
  IN  IF kind = "PANEL" \/ opt.fixed
      THEN Fixed(SynthIfNative(PanelEDIDModesFilter(m))) ELSE m

(* The loop does not stop at the first EDID that matches: a second one     *)
(* takes the place of the monitor just made, which is lost.                *)
UserEDIDs(m, o) ==
  LET Took(s, i, n) ==
        [cells |-> n.cells, mon |-> n.mon, checked |-> s.checked \cup {i},
         lost |-> s.lost \cup ToSet(Chain(s.cells, s.mon.modes))]
      Try(s, i) ==
        IF i \in s.checked \/ o \notin layout.opts[i].match THEN s
        ELSE Took(s, i, UserMonitor(s.cells, layout.outs[o].kind, layout.opts[i]))
      none == [cells |-> m.cells, mon |-> m.mon, checked |-> checked, lost |-> {}]
  IN  IF m.mon.there THEN none ELSE FoldLeft(Try, none, [i \in 1..Len(layout.opts) |-> i])

Relink(s) ==
  LET n == s.mon.native
      p == s.cells[n].prev
      x == s.cells[n].next
      h1 == IF p = NULL THEN s.cells ELSE [s.cells EXCEPT ![p].next = x]
      h2 == IF x = NULL THEN h1 ELSE [h1 EXCEPT ![x].prev = p]
  IN  [s EXCEPT !.cells = [h2 EXCEPT ![n].prev = NULL, ![n].next = s.mon.modes],
                !.mon.modes = n]
NativeToHeadAlways(s) ==             \* mutant: the second condition is dropped
  IF s.mon.native = NULL THEN s ELSE Relink(s)
NativeToHead(s) ==
  IF s.mon.native = NULL \/ s.mon.native = s.mon.modes THEN s ELSE Relink(s)

Answer(o, w) ==
  LET kind == layout.outs[o].kind
  IN  CASE kind = "PANEL" -> MonitorPanel(cells, w)
        [] kind = "TV" -> MonitorTV(cells, w)
        [] kind = "DDC" -> MonitorDDC(cells, w)
        [] OTHER -> Unknown(cells)
MonitorInit(o, w) == NativeToHead(UserEDIDs(Answer(o, w), o))
-----------------------------------------------------------------------------
Worlds == [edid : layout.edids \cup {NoEdid}, mode : layout.modes \cup {NoSize}]
Outs == 1..Len(layout.outs)

Init == /\ layout \in Layouts /\ cells = <<>> /\ checked = {} /\ lost = {}
        /\ mons = <<>> /\ active = <<>> /\ crtcs = [i \in {0, 1} |-> NoCrtc]
        /\ phase = "monitors"

(* The loop of rhdModeLayoutSelect, for the next output.  A monitor whose  *)
(* output gets no encoder is lost.                                         *)
AttachMonitor(w, alloc) ==
  LET o == Len(mons) + 1
  IN  /\ phase = "monitors" /\ o \in Outs
      /\ \E s \in {MonitorInit(o, w)} :
           LET kept == alloc /\ (s.mon.there \/ layout.outs[o].kind # "PANEL")
           IN  /\ cells' = s.cells /\ checked' = s.checked
               /\ mons' = Append(mons, IF kept THEN s.mon ELSE NoMonitor)
               /\ active' = IF kept THEN Append(active, o) ELSE active
               /\ lost' = lost \cup s.lost
                            \cup IF kept THEN {} ELSE ToSet(Chain(s.cells, s.mon.modes))
               /\ UNCHANGED <<layout, crtcs, phase>>

(* xf86InterpretEDID has no memory for an EDID of the user: its NULL goes  *)
(* to rhdMonitorPrintEDID, which reads through it.                         *)
PrintNoEDID(w) ==
  LET o == Len(mons) + 1
  IN  /\ phase = "monitors" /\ o \in Outs /\ ~Answer(o, w).mon.there
      /\ \E i \in DOMAIN layout.opts \ checked : o \in layout.opts[i].match
      /\ phase' = "panic"
      /\ UNCHANGED <<layout, cells, mons, checked, active, crtcs, lost>>

CrtcOf(k, first) == (k - 1 + first) % 2
InternalOn(first, i) ==
  \E k \in 1..Len(active) : /\ CrtcOf(k, first) = i /\ layout.outs[active[k]].internal
                            /\ \A j \in 1..k - 1 : CrtcOf(j, first) # i
FirstCrtc == IF ~InternalOn(0, 0) /\ InternalOn(0, 1) THEN 1 ELSE 0

ModesCopy(h, first) == ModesFrom(h, [k \in 1..Len(Chain(h, first)) |-> h[Chain(h, first)[k]].size])

(* RHDScalePolicy, and what an active output gives its CRTC.               *)
ScalePolicy(o) == mons[o].fixed /\ mons[o].native # NULL /\ layout.outs[o].kind = "PANEL"
GiveModes(s, k) ==
  LET o == active[k]
      i == CrtcOf(k, FirstCrtc)
      l == ModesCopy(s.cells, mons[o].modes)
      takes == s.crtcs[i].modes = NULL /\ mons[o].there
      c == IF takes THEN [s.crtcs[i] EXCEPT !.modes = l.modes, !.current = l.modes, !.from = o]
           ELSE s.crtcs[i]
  IN  IF takes /\ mons[o].modes = NULL THEN s
      ELSE [cells |-> IF takes THEN l.cells ELSE s.cells,
            crtcs |-> [s.crtcs EXCEPT ![i] = IF c.scaled = NULL /\ ScalePolicy(o)
                                             THEN [c EXCEPT !.scaled = c.current] ELSE c]]
SetupCrtcModes ==
  LET s == FoldLeft(GiveModes, [cells |-> cells, crtcs |-> crtcs],
                    [k \in 1..Len(active) |-> k])
  IN  /\ phase = "monitors" /\ Len(mons) = Len(layout.outs)
      /\ cells' = s.cells /\ crtcs' = s.crtcs /\ phase' = "up"
      /\ UNCHANGED <<layout, mons, checked, active, lost>>

(* fromRegistryEntry numbers the modes; a nub whose CRTC has none is not   *)
(* ready.                                                                  *)
NubStart(i) ==
  LET list == Chain(cells, crtcs[i].modes)
  IN  /\ phase = "up" /\ ~crtcs[i].up /\ crtcs[i].current # NULL
      /\ cells' = FoldLeft(LAMBDA h, k : [h EXCEPT ![list[k]].modeID = k], cells,
                           [k \in 1..Len(list) |-> k])
      /\ crtcs' = [crtcs EXCEPT ![i].up = TRUE]
      /\ UNCHANGED <<layout, mons, checked, active, lost, phase>>

(* cscSwitchMode, when the card takes the mode; else the mode is put back. *)
Found(i, id) == SelectSeq(Chain(cells, crtcs[i].modes), LAMBDA c : cells[c].modeID = id)
SwitchMode(i, id) ==
  /\ phase = "up" /\ crtcs[i].up /\ Found(i, id) # <<>>
  /\ crtcs' = [crtcs EXCEPT ![i].current = Found(i, id)[1]]
  /\ UNCHANGED <<layout, cells, mons, checked, active, lost, phase>>

(* RHDFreeRec: the lists of the CRTCs and of the connectors' monitors.     *)
FreeList(h, first) == FoldLeft(LAMBDA g, c : [g EXCEPT ![c].frees = @ + 1], h, Chain(h, first))
FreeRec ==
  /\ phase = "up" /\ phase' = "freed"
  /\ cells' = FoldLeft(FreeList, cells, <<crtcs[0].modes, crtcs[1].modes>>
                                        \o [o \in 1..Len(mons) |-> mons[o].modes])
  /\ crtcs' = [i \in {0, 1} |-> NoCrtc]
  /\ UNCHANGED <<layout, mons, checked, active, lost>>

Next == \/ \E w \in Worlds, alloc \in BOOLEAN : AttachMonitor(w, alloc)
        \/ \E w \in Worlds : PrintNoEDID(w)
        \/ SetupCrtcModes
        \/ \E i \in {0, 1} : NubStart(i)
        \/ \E i \in {0, 1}, id \in 1..Len(cells) : SwitchMode(i, id)
        \/ FreeRec
Spec == Init /\ [][Next]_vars
-----------------------------------------------------------------------------
(* What a monitor should offer, from its data alone.                       *)
Good(e) == SelectSeq(e.detailed, LAMBDA d : d.type = "DT" /\ d.good)
EdidSizes(e) ==
  ToSet(e.established) \cup ToSet(e.standard)
    \cup {d.size : d \in ToSet(Good(e))}
    \cup UNION {ToSet(d.sizes) : d \in {x \in ToSet(e.detailed) : x.type = "STD"}}
EdidCount(e) ==
  FoldLeft(LAMBDA n, d : n + CASE d.type = "DT" /\ d.good -> 1 [] d.type = "STD" -> Len(d.sizes)
                               [] OTHER -> 0,
           Len(e.established) + Len(e.standard), e.detailed)
NativeSize(m) ==
  CASE m.mode # NoSize -> m.mode
    [] m.mode = NoSize /\ m.edid.preferred /\ Good(m.edid) # <<>> -> Good(m.edid)[1].size
    [] m.mode = NoSize /\ ~(m.edid.preferred /\ Good(m.edid) # <<>>)
         /\ m.fixed /\ EdidCount(m.edid) > 1 ->
         CHOOSE s \in EdidSizes(m.edid) : \A t \in EdidSizes(m.edid) : ~Bigger(s, t)
    [] OTHER -> NoSize
OwnSizes(m) == IF m.mode # NoSize THEN {m.mode} ELSE EdidSizes(m.edid)
(* A monitor of fixed modes that may be given others, up to its native one.*)
Scalable(m, kind) == m.fixed /\ NativeSize(m) # NoSize /\ (kind = "TV" => m.mode = NoSize)
FitsIn(size, native) == size[1] <= native[1] /\ size[2] <= native[2]

(* A monitor's modes reach the system whole.  A CRTC offers every size     *)
(* that the first of its monitors knows, with the native mode in front,    *)
(* the one shown at the start; to these a panel adds every well-known size *)
(* that fits into its native mode, and nothing but well-known sizes, each  *)
(* of them once.  A CRTC scales if one of its outputs is a panel with a    *)
(* native mode, and always to the first mode of its list, whatever is      *)
(* switched to since: the panel's native mode, or that of the monitor      *)
(* whose list a panel that came later has to share.                        *)
Offered ==
  phase = "up" => \A i \in {0, 1} :
    LET m == mons[crtcs[i].from]
        kind == layout.outs[crtcs[i].from].kind
        list == [k \in 1..Len(Chain(cells, crtcs[i].modes)) |->
                   cells[Chain(cells, crtcs[i].modes)[k]].size]
        added == ToSet(list) \ OwnSizes(m)
        panels == {k \in DOMAIN active : CrtcOf(k, FirstCrtc) = i
                                         /\ layout.outs[active[k]].kind = "PANEL"
                                         /\ mons[active[k]].fixed
                                         /\ NativeSize(mons[active[k]]) # NoSize}
    IN  /\ crtcs[i].from # 0 =>
             /\ OwnSizes(m) \subseteq ToSet(list)
             /\ NativeSize(m) # NoSize => list[1] = NativeSize(m)
             /\ Scalable(m, kind) =>
                  {s \in ToSet(SynthList) : FitsIn(s, NativeSize(m))} \subseteq ToSet(list)
             /\ added \subseteq IF Scalable(m, kind) THEN ToSet(SynthList) ELSE {}
             /\ \A s \in added : Len(SelectSeq(list, LAMBDA t : t = s)) = 1
             /\ crtcs[i].current \in ToSet(Chain(cells, crtcs[i].modes))
        /\ crtcs[i].scaled = IF panels # {} THEN crtcs[i].modes ELSE NULL

(* No list runs in a circle, no mode is in two lists or twice in one, and  *)
(* none is forgotten but those of a monitor the driver drops; RHDFreeRec   *)
(* frees each of the others exactly once.                                  *)
Lists == FlattenSeq([o \in 1..Len(mons) |-> Chain(cells, mons[o].modes)])
           \o Chain(cells, crtcs[0].modes) \o Chain(cells, crtcs[1].modes)
OneList ==
  IF phase = "freed"
  THEN \A c \in DOMAIN cells : cells[c].frees = IF c \in lost THEN 0 ELSE 1
  ELSE /\ IsInjective(Lists)
       /\ ToSet(Lists) = DOMAIN cells \ lost
=============================================================================
