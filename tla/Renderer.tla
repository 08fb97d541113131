------------------------------ MODULE Renderer ------------------------------
(***************************************************************************)
(* render/D2DRenderer.cpp and the order in which app/WindowRender.cpp      *)
(* calls it: the devices and what is bound to them, the loss and the       *)
(* rebuilding of the device, the glyph atlas, and the batch of glyphs that *)
(* is drawn after everything else.  Any call into Direct3D or Direct2D may *)
(* fail, and all fail once the device has been removed.                    *)
(***************************************************************************)
EXTENDS Naturals

CONSTANTS Glyphs,     \* grapheme and style, the keys of glyphCache_
          AtlasSlots, \* slots of the atlas texture
          MaxFaults,  \* bound on failed calls and removed devices
          NoGlyph

ASSUME GlyphsAssumption == NoGlyph \notin Glyphs
ASSUME AtlasAssumption == AtlasSlots \in Nat /\ MaxFaults \in Nat

VARIABLES
  gen,        \* number of the last D3D device made
  made,       \* for each kind of resource the device it is bound to; 0: none
  context,    \* d2dContext_ is there
  gone,       \* the device has been removed
  lost,       \* deviceLost_
  sized,      \* the window has a size
  frame,      \* "idle", "open", or "skipped": drawn without BeginDraw
  cache,      \* glyphCache_: the slot of each glyph; 0: not in the atlas
  held,       \* the glyph in each slot of the texture
  fill,       \* slots used (atlasX_, atlasY_)
  broken,     \* atlasBroken_
  needsReset, \* atlasNeedsReset_
  batch,      \* pendingGlyphVertices_, as pairs of a glyph and a slot
  fresh,      \* the last frame was presented
  crashed,    \* bindTarget() used a null context
  faults

deviceVars == <<gen, made, context, gone, lost, sized>>
atlasVars  == <<cache, held, fill, broken, needsReset>>
frameVars  == <<frame, batch, fresh>>
rendererVars == <<deviceVars, atlasVars, frameVars, crashed, faults>>

Bound == {"device", "swapChain", "target", "brush", "image", "atlas", "shader"}
Nothing == [r \in Bound |-> 0]
NoSlots == [g \in Glyphs |-> 0]
Blank   == [s \in 1..AtlasSlots |-> NoGlyph]

\* Outcomes of a call into the graphics API.
Succeeds == ~gone /\ UNCHANGED faults
Fails == IF gone THEN UNCHANGED faults
         ELSE faults < MaxFaults /\ faults' = faults + 1

\* initialize() made the device; the first WM_SIZE makes the swap chain.
RendererInit ==
  /\ gen = 1 /\ made = [Nothing EXCEPT !["device"] = 1]
  /\ context = TRUE /\ gone = FALSE /\ lost = FALSE /\ sized = FALSE
  /\ cache = NoSlots /\ held = Blank /\ fill = 0
  /\ broken = FALSE /\ needsReset = FALSE
  /\ frame = "idle" /\ batch = {}
  /\ fresh = FALSE /\ crashed = FALSE /\ faults = 0

\* A driver update, a TDR reset, a switch of the GPU.
RemoveDevice ==
  /\ ~gone /\ made["device"] # 0 /\ faults < MaxFaults
  /\ gone' = TRUE /\ faults' = faults + 1
  /\ UNCHANGED <<gen, made, context, lost, sized, atlasVars, frameVars, crashed>>

\* setFont(), setUiScale() and so buildTextFormats(): every cached glyph is
\* stale, and the atlas is made again when it is next needed.
BuildTextFormats ==
  /\ frame = "idle" /\ ~crashed
  /\ cache' = NoSlots /\ held' = Blank /\ fill' = 0 /\ broken' = FALSE
  /\ made' = [made EXCEPT !["atlas"] = 0]
  /\ UNCHANGED <<gen, context, gone, lost, sized, needsReset, frameVars,
                 crashed, faults>>

\* createSwapChainResources(), or ResizeBuffers, up to bindTarget().
SwapChainOf(m) == [m EXCEPT !["swapChain"] = m["device"], !["target"] = 0]

\* bindTarget(): the target, and the brush when there is none.  Nobody looks
\* whether the brush could be made.
BindTarget(m) ==
  [m EXCEPT !["target"] = m["device"],
            !["brush"] = IF @ = 0 THEN m["device"] ELSE @]
BindNoBrush(m) == [m EXCEPT !["target"] = m["device"]]

\* resize().
Resize(positive) ==
  /\ frame = "idle" /\ ~crashed
  /\ sized' = positive
  /\ IF made["device"] = 0 \/ ~positive
     THEN UNCHANGED <<made, lost, crashed, faults>>
     ELSE LET chain == SwapChainOf(made)
          IN \/ /\ Succeeds
                /\ made' = IF context THEN BindTarget(chain) ELSE chain
                /\ crashed' = ~context
                /\ UNCHANGED lost
             \/ /\ Fails \* making the chain, resizing it, or binding it
                /\ made' \in {[made EXCEPT !["target"] = 0]} \cup
                             (IF context /\ ~gone THEN {chain, BindNoBrush(chain)}
                              ELSE {})
                /\ lost' = (lost \/ (gone /\ made["swapChain"] # 0))
                /\ UNCHANGED crashed
  /\ UNCHANGED <<gen, context, gone, atlasVars, frameVars>>

-----------------------------------------------------------------------------
(* One frame.                                                               *)

Opened == frame' = "open" /\ batch' = {}
Skipped == frame' = "skipped" /\ UNCHANGED batch

\* Mutant: the atlas and the shaders of the old device stay.
RecreateKeepsAtlas ==
  /\ UNCHANGED <<cache, held, fill, broken, needsReset, faults>>
  /\ gen' = gen + 1 /\ gone' = FALSE /\ context' = TRUE /\ lost' = FALSE
  /\ made' = BindTarget([made EXCEPT !["device"] = gen + 1, !["brush"] = 0,
                                     !["swapChain"] = gen + 1])
  /\ Opened

\* recreateDevice(): everything bound to the device goes, then the device and,
\* if the window has a size, the swap chain are made; any of it may fail.
\* deviceLost_ is reset as soon as the device is there.
Recreate ==
  /\ cache' = NoSlots /\ held' = Blank /\ fill' = 0 /\ broken' = FALSE
  /\ UNCHANGED needsReset
  /\ LET fresher == [Nothing EXCEPT !["device"] = gen + 1]
         chain == SwapChainOf(fresher)
         Fault == faults < MaxFaults /\ faults' = faults + 1
     IN \/ /\ Fault /\ made' = Nothing /\ context' = FALSE
           /\ Skipped /\ UNCHANGED <<gen, gone, lost>>
        \/ /\ Fault /\ made' = fresher /\ context' \in BOOLEAN
           /\ gen' = gen + 1 /\ gone' = FALSE
           /\ Skipped /\ UNCHANGED lost
        \/ /\ gen' = gen + 1 /\ gone' = FALSE /\ context' = TRUE /\ lost' = FALSE
           /\ \/ ~sized /\ made' = fresher /\ Skipped /\ UNCHANGED faults
              \/ sized /\ made' = BindTarget(chain) /\ Opened /\ UNCHANGED faults
              \/ /\ sized /\ Fault /\ Skipped
                 /\ made' \in {fresher, chain, BindNoBrush(chain)}

\* The reset that atlasSlot() put off: between two frames no batch needs the
\* slots.
ResetAtlas ==
  IF needsReset /\ made["atlas"] # 0
  THEN /\ cache' = NoSlots /\ held' = Blank /\ fill' = 0 /\ needsReset' = FALSE
       /\ \/ Succeeds /\ UNCHANGED broken
          \/ Fails /\ broken' = TRUE
  ELSE UNCHANGED <<atlasVars, faults>>

BeginFrame ==
  /\ frame = "idle" /\ ~crashed
  /\ fresh' = FALSE
  /\ IF lost THEN Recreate
     ELSE /\ ResetAtlas
          /\ IF context /\ made["target"] # 0 /\ made["brush"] # 0
             THEN Opened ELSE Skipped
          /\ UNCHANGED <<gen, made, context, gone, lost>>
  /\ UNCHANGED <<sized, crashed>>

Drawing == frame # "idle" /\ context /\ made["brush"] # 0

\* Mutant: a full atlas is wiped in the middle of a frame.
DrawGlyphWipes(g) ==
  /\ Drawing /\ ~broken /\ cache[g] = 0 /\ ~gone /\ UNCHANGED faults
  /\ LET full == fill = AtlasSlots
         at == IF full THEN 1 ELSE fill + 1
     IN /\ fill' = at
        /\ cache' = [(IF full THEN NoSlots ELSE cache) EXCEPT ![g] = at]
        /\ held' = [held EXCEPT ![at] = g]
        /\ batch' = batch \cup {<<g, at>>}
  /\ made' = [made EXCEPT !["atlas"] = made["device"],
                          !["shader"] = made["device"]]
  /\ UNCHANGED <<gen, context, gone, lost, sized, broken, needsReset, frame, fresh,
                 crashed>>

\* ensureGlyphShader() and ensureAtlas(), which makes the shaders as well.
EnsureGlyphShader(m) == [m EXCEPT !["shader"] = IF @ = 0 THEN m["device"] ELSE @]
EnsureAtlas(m) ==
  IF m["atlas"] # 0 THEN m
  ELSE EnsureGlyphShader([m EXCEPT !["atlas"] = m["device"]])

\* atlasSlot(): the glyph's slot in the atlas, which is made and filled as
\* needed.
AtlasSlot(g) ==
  \/ /\ made["atlas"] # 0 /\ cache[g] # 0
     /\ batch' = batch \cup {<<g, cache[g]>>}
     /\ UNCHANGED <<made, atlasVars, faults>>
  \/ /\ cache[g] = 0 /\ fill < AtlasSlots /\ Succeeds
     /\ made' = EnsureAtlas(made)
     /\ fill' = fill + 1
     /\ cache' = [cache EXCEPT ![g] = fill + 1]
     /\ held' = [held EXCEPT ![fill + 1] = g]
     /\ batch' = batch \cup {<<g, fill + 1>>}
     /\ UNCHANGED <<broken, needsReset>>
  \/ /\ cache[g] = 0 /\ fill < AtlasSlots /\ Fails
     /\ broken' = TRUE
     /\ UNCHANGED <<made, cache, held, fill, needsReset, batch>>
  \/ /\ cache[g] = 0 /\ fill = AtlasSlots
     /\ needsReset' = TRUE
     /\ UNCHANGED <<made, cache, held, fill, broken, batch, faults>>

\* One cell of drawGrid(): its glyph comes from the atlas or, in colour, in a
\* ligature run, or when there is no atlas or no room, from DrawText.
DrawGlyph(g) ==
  /\ Drawing /\ ~broken /\ AtlasSlot(g)
  /\ UNCHANGED <<gen, context, gone, lost, sized, frame, fresh, crashed>>

\* drawImage(): loaded once, and kept although the loading failed.
DrawImage ==
  /\ frame # "idle" /\ context /\ made["image"] = 0 /\ Succeeds
  /\ made' = [made EXCEPT !["image"] = made["device"]]
  /\ UNCHANGED <<gen, context, gone, lost, sized, atlasVars, frameVars, crashed>>

\* drawGlyphBatch()
DrawBatch(m) == IF batch = {} THEN m ELSE EnsureGlyphShader(m)

\* Mutant: nobody looks at what Present returned.
EndFrameIgnoresLoss ==
  /\ frame # "idle"
  /\ frame' = "idle"
  /\ fresh' = (frame = "open" /\ ~gone)
  /\ UNCHANGED <<deviceVars, atlasVars, batch, crashed, faults>>

\* endFrame(): EndDraw, then the batch, then Present.  A failure of EndDraw or
\* Present is looked at only if it asks for a new target or a new device.
EndFrame ==
  /\ frame # "idle"
  /\ frame' = "idle"
  /\ IF frame = "skipped" \/ made["swapChain"] = 0
     THEN UNCHANGED <<made, lost, broken, fresh, faults>>
     ELSE \/ /\ Succeeds
             /\ fresh' = TRUE
             /\ made' = DrawBatch(made)
             /\ UNCHANGED <<lost, broken>>
          \/ /\ ~gone /\ Fails /\ batch # {} \* only the batch fails
             /\ broken' = TRUE /\ fresh' = TRUE
             /\ UNCHANGED <<made, lost>>
          \/ /\ ~gone /\ Fails /\ lost' \in BOOLEAN
             /\ made' \in {made, DrawBatch(made)}
             /\ UNCHANGED <<broken, fresh>>
          \/ /\ gone
             /\ lost' = TRUE
             /\ UNCHANGED <<made, broken, fresh, faults>>
  /\ UNCHANGED <<gen, context, gone, sized, cache, held, fill, needsReset,
                 batch, crashed>>

-----------------------------------------------------------------------------
RendererNext ==
  \/ RemoveDevice \/ BuildTextFormats \/ DrawImage
  \/ \E positive \in BOOLEAN : Resize(positive)
  \/ \E g \in Glyphs : DrawGlyph(g)
  \/ BeginFrame \/ EndFrame

\* A frame is drawn every kIdleRenderMs at least (RenderLoop) and ends.
RendererSpec ==
  /\ RendererInit /\ [][RendererNext]_rendererVars
  /\ WF_rendererVars(BeginFrame) /\ WF_rendererVars(EndFrame)

-----------------------------------------------------------------------------
(* Properties.                                                              *)

RendererTypeOK ==
  /\ gen \in Nat /\ made \in [Bound -> Nat]
  /\ context \in BOOLEAN /\ gone \in BOOLEAN /\ lost \in BOOLEAN
  /\ sized \in BOOLEAN /\ fresh \in BOOLEAN /\ crashed \in BOOLEAN
  /\ broken \in BOOLEAN /\ needsReset \in BOOLEAN
  /\ frame \in {"idle", "open", "skipped"}
  /\ cache \in [Glyphs -> 0..AtlasSlots]
  /\ held \in [1..AtlasSlots -> Glyphs \cup {NoGlyph}]
  /\ fill \in 0..AtlasSlots /\ faults \in Nat
  /\ batch \in SUBSET (Glyphs \X (1..AtlasSlots))

\* Nothing made on a device outlives it: a swap chain, brush, bitmap, atlas or
\* shader of a lost device is never used with the next one, however often the
\* rebuilding itself fails half-way.
SameDevice == \A r \in Bound : made[r] \in {0, made["device"]}

\* The batch is drawn when all text has been laid out, and every quad in it
\* still finds its own glyph in the atlas: no reset, font change, or skipped
\* frame comes between (D2DRenderer.cpp:984-987).
BatchSamplesItsGlyphs ==
  frame = "open" => \A q \in batch : held[q[2]] = q[1]

\* The window has a size, the device is there, and no target or no brush:
\* ResizeBuffers, the making of the swap chain, or that of the brush failed, every
\* frame is skipped without deviceLost_ being set, and only another WM_SIZE tries
\* again.
Unbound == sized /\ ~lost /\ (made["target"] = 0 \/ made["brush"] = 0)

\* However many calls of a frame, or of the rebuilding of a lost device, fail,
\* frames reach the screen again, unless the window has no size, was left
\* Unbound, or the process fell over a null context.
FramesReachScreen ==
  []<>(fresh \/ ~sized \/ Unbound \/ crashed)
=============================================================================
