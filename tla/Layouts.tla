------------------------------ MODULE Layouts ------------------------------
(***************************************************************************)
(* How a decoded frame is laid out in the buffer of a chunk, and which     *)
(* kernels make and read that layout: get_dec_strat and the extr_* of      *)
(* src/src/ffms.rs, CropCalc, Geom and the dispatch of src/src/dec.rs,     *)
(* Pipeline of src/src/pipeline.rs, and the choice of the encoder function *)
(* in src/src/enc.rs.  The strategy is chosen once, from the properties of *)
(* the file, the pipe and the arguments; the decoder, the pipeline and the *)
(* encoder each derive their sizes from it by themselves.                  *)
(*                                                                         *)
(* A kernel takes whole chunks of bytes (the exact ones, in SIMD registers)*)
(* or any number (the ones called _rem, chunk 1 here); it reads a plane in *)
(* one go or row by row.  Sizes are bytes.                                 *)
(*                                                                         *)
(* External: the decoder pads the rows of a file's frames to Align bytes.  *)
(***************************************************************************)
EXTENDS Naturals, Sequences

CONSTANTS Widths, Heights,   \* sizes of the video
          Crops,             \* crops <<rows at the top, columns at the left>>
          Tools,             \* [enc, hw, tq, alone, pipe]: the encoder, GPU decoding, target
                             \* quality, no spare buffers; pipe = "none", or the depth of
                             \* what is piped in
          ShiftChunk, PackChunk, UnpackChunk, Align

Encoders == {"svt", "avm", "vvenc", "x265", "x264"}

\* Chroma has half the samples of luma both ways.  Every encoder takes frames from the GPU decoder,
\* which is refused only beside a pipe (main.rs); AVM has no target quality.
LayoutAssumption ==
    /\ Widths \cup Heights \subseteq {n \in Nat : n > 0 /\ n % 2 = 0}
    /\ Crops \subseteq {c \in Nat \X Nat : c[1] % 2 = 0 /\ c[2] % 2 = 0}
    /\ {ShiftChunk, PackChunk, UnpackChunk, Align} \subseteq Nat \ {0}
    /\ PackChunk % 8 = 0
    /\ Tools \subseteq {t \in [enc : Encoders, hw : BOOLEAN, tq : BOOLEAN, alone : BOOLEAN,
                               pipe : {"none", "8", "10"}] :
                        /\ t.hw => t.pipe = "none"
                        /\ t.enc = "avm" => ~t.tq}

VARIABLES pc, tool, w, h, b10, crop, linesz,   \* the video, as VidInf has it
          strat, frameSz, isNv12, kernel

vars == <<pc, tool, w, h, b10, crop, linesz, strat, frameSz, isNv12, kernel>>

Pix == IF b10 THEN 2 ELSE 1
\* The narrowest row of which luma and chroma are aligned (external).
Padded(n, pix) == CHOOSE m \in n .. n + 4 * Align : /\ m * pix % (2 * Align) = 0
                                                    /\ \A k \in n .. m - 1 : k * pix % (2 * Align) # 0

\* get_vidinf, then init_pipe_crop: the pipe replaces the size and the depth of the
\* file, not its line sizes.
Init == /\ pc = "choose" /\ strat = "none" /\ frameSz = 0 /\ isNv12 = FALSE /\ kernel = "none"
        /\ tool \in Tools
        /\ w \in Widths /\ h \in Heights /\ crop \in Crops
        /\ 2 * crop[1] < h /\ 2 * crop[2] < w
        /\ \E file10 \in BOOLEAN :
              /\ b10 = IF tool.pipe = "none" THEN file10 ELSE tool.pipe = "10"
              /\ linesz \in {w * (IF file10 THEN 2 ELSE 1), Padded(w, IF file10 THEN 2 ELSE 1) * (IF file10 THEN 2 ELSE 1)}

----------------------------------------------------------------------------
\* get_dec_strat.

HasCrop == crop # <<0, 0>>
HasPad == linesz # w * Pix
Divides(c, n) == n % c = 0
Quarter == (w \div 2) * (h \div 2)
NewW == w - 2 * crop[2]
NewH == h - 2 * crop[1]
FinalW == IF HasCrop THEN NewW ELSE w
FinalH == IF HasCrop THEN NewH ELSE h
HasRem == b10 /\ ~Divides(PackChunk, FinalW)

HwStrat ==
    IF ~b10
    THEN CASE HasCrop -> IF tool.tq THEN "HwNv12Crop" ELSE "HwNv12CropTo10"
           [] ~HasCrop /\ HasPad -> IF tool.tq THEN "HwNv12Stride" ELSE "HwNv12To10Stride"
           [] ~HasCrop /\ ~HasPad /\ ~tool.tq -> "HwNv12To10"
           [] OTHER -> IF Divides(2 * ShiftChunk, Quarter) THEN "HwNv12" ELSE "HwNv12Rem"
    ELSE CASE HasCrop -> IF Divides(PackChunk, NewW) THEN "HwP010CropPack" ELSE "HwP010CropPackPkRem"
           [] ~HasCrop /\ HasPad -> "HwP010PackRemPkRemStride"
           [] OTHER -> IF Divides(ShiftChunk, Quarter)
                       THEN IF Divides(PackChunk, w) THEN "HwP010Pack" ELSE "HwP010PackPkRem"
                       ELSE IF Divides(PackChunk, w) THEN "HwP010PackRem" ELSE "HwP010PackRemPkRem"

\* Mutation of SwStrat: a crop of rows is taken from padded frames in one go.
SwStratPad ==
    IF ~b10
    THEN CASE ~HasCrop -> IF HasPad THEN "B8Stride" ELSE "B8Fast"
           [] OTHER -> IF crop[2] = 0 THEN "B8CropFast" ELSE "B8Crop"
    ELSE CASE HasCrop /\ crop[2] = 0 -> IF HasRem THEN "B10CropFastRem" ELSE "B10CropFast"
           [] HasCrop /\ crop[2] # 0 -> IF HasRem THEN "B10CropRem" ELSE "B10Crop"
           [] OTHER -> IF HasRem THEN "B10FastRem" ELSE "B10Fast"

SwStrat ==
    IF ~b10
    THEN CASE ~HasCrop -> IF HasPad THEN "B8Stride" ELSE "B8Fast"
           [] OTHER -> IF ~HasPad /\ crop[2] = 0 THEN "B8CropFast" ELSE "B8Crop"
    ELSE CASE HasCrop /\ ~HasPad /\ crop[2] = 0 -> IF HasRem THEN "B10CropFastRem" ELSE "B10CropFast"
           [] HasCrop /\ (HasPad \/ crop[2] # 0) -> IF HasRem THEN "B10CropRem" ELSE "B10Crop"
           [] ~HasCrop /\ ~HasPad -> IF HasRem THEN "B10FastRem" ELSE "B10Fast"
           [] OTHER -> IF HasRem THEN "B10StrideRem" ELSE "unreachable"

Choose == /\ pc = "choose" /\ pc' = "enc"
          /\ strat' = IF tool.hw THEN HwStrat ELSE SwStrat
          /\ UNCHANGED <<tool, w, h, b10, crop, linesz, frameSz, isNv12, kernel>>

----------------------------------------------------------------------------
\* enc_all, enc_tq: the strategy without the packing when no chunk waits in memory, the
\* sizes of the pipeline, and the function of the encoder.

ToRaw(s) == CASE s \in {"B10Fast", "B10FastRem"} -> "B10Raw"
              [] s = "B10StrideRem" -> "B10RawStride"
              [] s \in {"B10CropFast", "B10CropFastRem"} -> "B10RawCropFast"
              [] s \in {"B10Crop", "B10CropRem"} -> "B10RawCrop"
              [] s \in {"HwP010Pack", "HwP010PackPkRem"} -> "HwP010Raw"
              [] s \in {"HwP010PackRem", "HwP010PackRemPkRem"} -> "HwP010RawRem"
              [] s \in {"HwP010CropPack", "HwP010CropPackPkRem"} -> "HwP010RawCrop"
              [] s = "HwP010PackRemPkRemStride" -> "HwP010RawRemStride"
              [] OTHER -> s

Raw == {"B10Raw", "B10RawStride", "B10RawCropFast", "B10RawCrop",
        "HwP010Raw", "HwP010RawRem", "HwP010RawCrop", "HwP010RawRemStride"}

PackedRow(n) == LET b == (n * 10 + 7) \div 8 IN ((b + 4) \div 5) * 5
PackedSz(a, b) == PackedRow(a) * b + PackedRow(a \div 2) * b
Sz8(a, b) == (a * b * 3) \div 2

FrameSz(s) == IF s \in Raw THEN FinalW * FinalH * 3
              ELSE IF b10 THEN PackedSz(FinalW, FinalH) ELSE Sz8(FinalW, FinalH)

Nv12Exact == /\ Divides(ShiftChunk, FinalW * FinalH)
             /\ Divides(2 * ShiftChunk, (FinalW \div 2) * (FinalH \div 2))

UnpackExact(fsz) == Divides(PackChunk, FinalW) /\ Divides(UnpackChunk, fsz)

\* resolve_svt_enc, and with target quality resolve_svt_crf_enc, which asks for the depth
\* only.  The code repeats both for every encoder (AVM has no target quality).
SvtEnc(s, nv12, fsz) ==
    CASE s \in Raw -> "direct"
      [] s \notin Raw /\ nv12 -> IF Nv12Exact THEN "nv12" ELSE "nv12_rem"
      [] OTHER -> IF b10 THEN IF UnpackExact(fsz) THEN "unpack" ELSE "unpack_rem"
                  ELSE IF Divides(ShiftChunk, fsz) THEN "conv" ELSE "conv_rem"
SvtCrf(fsz) == IF b10 THEN IF UnpackExact(fsz) THEN "unpack" ELSE "unpack_rem"
               ELSE IF Divides(ShiftChunk, fsz) THEN "conv" ELSE "conv_rem"
AvmEnc(s, nv12, fsz) == SvtEnc(s, nv12, fsz)
VvencEnc(s, nv12, fsz) == IF tool.tq THEN SvtCrf(fsz) ELSE SvtEnc(s, nv12, fsz)
X265Enc(s, nv12, fsz) == IF tool.tq THEN SvtCrf(fsz) ELSE SvtEnc(s, nv12, fsz)
X264Enc(s, nv12, fsz) == IF tool.tq THEN SvtCrf(fsz) ELSE SvtEnc(s, nv12, fsz)

\* resolve_crf_enc, resolve_lib_enc.
Resolve(s, nv12, fsz) == CASE tool.enc = "avm" -> AvmEnc(s, nv12, fsz)
                           [] tool.enc = "vvenc" -> VvencEnc(s, nv12, fsz)
                           [] tool.enc = "x265" -> X265Enc(s, nv12, fsz)
                           [] tool.enc = "x264" -> X264Enc(s, nv12, fsz)
                           [] OTHER -> IF tool.tq THEN SvtCrf(fsz) ELSE SvtEnc(s, nv12, fsz)

EncAll == /\ pc = "enc" /\ strat # "unreachable"
          /\ pc' = "run"
          /\ strat' = IF ~tool.tq /\ b10 /\ tool.alone THEN ToRaw(strat) ELSE strat
          /\ isNv12' = (strat \in {"HwNv12To10", "HwNv12To10Stride", "HwNv12CropTo10"})
          /\ frameSz' = FrameSz(strat')
          /\ kernel' = Resolve(strat', isNv12', frameSz')
          /\ UNCHANGED <<tool, w, h, b10, crop, linesz>>

Next == Choose \/ EncAll
Spec == Init /\ [][Next]_vars

----------------------------------------------------------------------------
\* What the decoder does with a frame, by strategy: the layout, whether it reads the
\* planes in one go, the chunk of the kernel that reads luma and chroma, and the chunk
\* of the packing kernel after it (pack_hw_planes).

Does(fmt, whole, y, c, pack) == [fmt |-> fmt, whole |-> whole, y |-> y, c |-> c, pack |-> pack]

ExtrRaw == [s \in {"B10Raw", "B10RawCropFast", "B8Fast", "B8CropFast"} |->
               Does(IF s \in {"B8Fast", "B8CropFast"} THEN "planar8" ELSE "planar16", TRUE, 1, 1, 1)]
ExtrRawRows == [s \in {"B10RawStride", "B10RawCrop", "B8Stride", "B8Crop"} |->
                   Does(IF s \in {"B8Stride", "B8Crop"} THEN "planar8" ELSE "planar16", FALSE, 1, 1, 1)]
Extr10 == [s \in {"B10Fast", "B10CropFast", "B10Crop"} |-> Does("packed", s # "B10Crop", PackChunk, PackChunk, 1)]
Extr10Rem == [s \in {"B10FastRem", "B10CropFastRem", "B10StrideRem", "B10CropRem"} |->
                 Does("packed", s \in {"B10FastRem", "B10CropFastRem"}, 1, 1, 1)]
ExtrNv12 == [s \in {"HwNv12", "HwNv12Rem", "HwNv12Stride", "HwNv12Crop"} |->
                Does("planar8", s \in {"HwNv12", "HwNv12Rem"}, 1, IF s = "HwNv12" THEN 2 * ShiftChunk ELSE 1, 1)]
ExtrNv12To10 == [s \in {"HwNv12To10", "HwNv12To10Stride", "HwNv12CropTo10"} |->
                    Does("nv12", s = "HwNv12To10", 1, 1, 1)]
ExtrP010 == [s \in {"HwP010Raw", "HwP010RawRem", "HwP010RawRemStride", "HwP010RawCrop"} |->
                LET c == IF s = "HwP010Raw" THEN 2 * ShiftChunk ELSE 1
                IN  Does("planar16", s \in {"HwP010Raw", "HwP010RawRem"}, c, c, 1)]

\* dec_hw_pack: a raw frame, packed by pack_hw_planes or pack_hw_planes_rem.
HwPack == LET step(raw, chunk) == [ExtrP010[raw] EXCEPT !.fmt = "packed", !.pack = chunk]
          IN  [HwP010Pack |-> step("HwP010Raw", PackChunk),
               HwP010PackPkRem |-> step("HwP010Raw", 1),
               HwP010PackRem |-> step("HwP010RawRem", PackChunk),
               HwP010PackRemPkRem |-> step("HwP010RawRem", 1),
               HwP010CropPack |-> step("HwP010RawCrop", PackChunk),
               HwP010CropPackPkRem |-> step("HwP010RawCrop", 1),
               HwP010PackRemPkRemStride |-> step("HwP010RawRemStride", 1)]

\* dec_chnks: the tables of disp_raw, of disp_hw_10b_raw, of disp_hw_10b_pack, and of disp_10b
\* for every strategy that the arms before do not name.
Dispatch == CASE strat \in DOMAIN ExtrRaw -> ExtrRaw
              [] strat \in DOMAIN ExtrRawRows -> ExtrRawRows
              [] strat \in DOMAIN ExtrNv12 -> ExtrNv12
              [] strat \in DOMAIN ExtrNv12To10 -> ExtrNv12To10
              [] strat \in DOMAIN ExtrP010 -> ExtrP010
              [] strat \in DOMAIN HwPack -> HwPack
              [] strat \in DOMAIN Extr10 -> Extr10
              [] OTHER -> Extr10Rem
DecodesFile == Dispatch[strat]

\* dec_pipe asks for the depth, the crop and the remainder by itself; the frames of a pipe
\* have no padding.
DecodesPipe ==
    CASE strat \in Raw -> Does("planar16", ~HasCrop, 1, 1, 1)
      [] strat \notin Raw /\ ~b10 -> Does("planar8", ~HasCrop, 1, 1, 1)
      [] OTHER -> LET c == IF HasRem THEN 1 ELSE PackChunk
                  IN  IF HasCrop THEN Does("packed", FALSE, c, c, 1) ELSE Does("packed", TRUE, 1, 1, c)

\* What the kernel of an encoder function reads (make_send_svt and its instances; the
\* other encoders have instances of their own of the same kernels).
SvtReads == [direct |-> "planar16", nv12 |-> "nv12", nv12_rem |-> "nv12",
             unpack |-> "packed", unpack_rem |-> "packed", conv |-> "planar8", conv_rem |-> "planar8"]
AvmReads == SvtReads
VvencReads == SvtReads
X265Reads == SvtReads
X264Reads == SvtReads
Reads == [svt |-> SvtReads, avm |-> AvmReads, vvenc |-> VvencReads, x265 |-> X265Reads, x264 |-> X264Reads]

Decodes == IF tool.pipe = "none" THEN DecodesFile ELSE DecodesPipe

\* Geom::new of the frame that is stored, and the bytes of it.
YSz == FinalW * FinalH * Pix
UvSz == (FinalW \div 2) * Pix * (FinalH \div 2)
Stored(d) == IF d.fmt = "packed"
             THEN PackedRow(FinalW) * FinalH + 2 * PackedRow(FinalW \div 2) * (FinalH \div 2)
             ELSE YSz + 2 * UvSz

\* CropCalc::new: where the crop begins in the luma plane and in a chroma plane (for NV12
\* and P010, in the plane of both).
Semi == tool.hw
LineUv == IF Semi THEN linesz ELSE linesz \div 2
Start(whole) == IF whole THEN (crop[1] * w + crop[2]) * Pix ELSE crop[1] * linesz + crop[2] * Pix
StartUv(whole) == IF whole THEN (((crop[1] \div 2) * w) \div 2 + crop[2] \div 2) * Pix
                  ELSE (crop[1] \div 2) * LineUv + (IF Semi THEN crop[2] * Pix ELSE (crop[2] * Pix) \div 2)

----------------------------------------------------------------------------
\* The decoder reads the samples of the crop and nothing else: in one go only where the
\* rows lie side by side, from the first sample of the crop, and with the kernels that
\* take whole chunks only where they end with the plane (the row).
DecodesCrop ==
    (pc = "run" /\ tool.pipe = "none") =>
        LET d == Decodes
            row == FinalW * Pix
            rowUv == (FinalW \div 2) * Pix * (IF Semi THEN 2 ELSE 1)
        IN  /\ d.whole => ~HasPad /\ FinalW = w
            /\ <<Start(d.whole) \div linesz, Start(d.whole) % linesz>> = <<crop[1], crop[2] * Pix>>
            /\ <<StartUv(d.whole) \div LineUv, StartUv(d.whole) % LineUv>> =
                  <<crop[1] \div 2, IF Semi THEN crop[2] * Pix ELSE (crop[2] \div 2) * Pix>>
            /\ crop[2] * Pix + row <= linesz
            /\ (IF Semi THEN crop[2] * Pix ELSE (crop[2] \div 2) * Pix) + rowUv <= LineUv
            /\ Divides(d.y, IF d.whole THEN YSz ELSE row)
            /\ Divides(d.c, IF d.whole THEN UvSz ELSE (FinalW \div 2) * Pix)
            /\ Divides(d.pack, YSz) /\ Divides(d.pack, UvSz)

\* The encoder reads the layout that the decoder stored: the same format, the same bytes
\* per frame (each advances by its own count), and a kernel that ends with the frame; the
\* unpacking kernel in chunks runs over rows without a filler.
EncoderReadsLayout ==
    pc = "run" =>
        LET fmt == Decodes.fmt
        IN  /\ Stored(Decodes) = frameSz
            /\ fmt = Reads[tool.enc][kernel]
            /\ kernel = "nv12" => Divides(ShiftChunk, YSz) /\ Divides(2 * ShiftChunk, UvSz)
            /\ kernel = "conv" => Divides(ShiftChunk, YSz + 2 * UvSz)
            /\ kernel = "unpack" => /\ Divides(UnpackChunk, Stored(Decodes))
                                    /\ 4 * PackedRow(FinalW) = 5 * FinalW
                                    /\ 8 * PackedRow(FinalW \div 2) = 5 * FinalW

\* Whatever is decoded has a strategy: the arm that no input is to reach is not reached.  Not
\* true of a 10-bit pipe (its depth replaces the source's, main.rs:705-707) beside a file whose
\* line size is not that of 10 bits.
ArmExists == strat # "unreachable"
=============================================================================
