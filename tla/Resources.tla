------------------------------ MODULE Resources ------------------------------
(***************************************************************************)
(* What the sub-devices work out of a configuration before they ask their  *)
(* core applications for it: the keys and sizes of the ring buffers that   *)
(* SMRB makes (smrb_util.py, band_config.py), the keys that RECV, DSP and  *)
(* STAT are given to find them (receive_util.py, dsp_util.py,              *)
(* stat_util.py), and the rate at which DSP is told to expect data.        *)
(*                                                                         *)
(* Each of these is computed on its own, by another device, and nothing at *)
(* run time compares them.  Numbers that Python computes in floating point *)
(* are compared as the integers they are quotients of.                     *)
(***************************************************************************)
EXTENDS Integers, Sequences

(* A beam is numbered with two hexadecimal digits, and there are at most   *)
(* four sub-bands, of which only the first is in use.                      *)
Beams == 0 .. 255
Subbands == 1 .. 4

-----------------------------------------------------------------------------
(* Keys                                                                    *)

DataKeySuffix == 0
WeightsKeySuffix == 2

(* The four characters of a key, as hexadecimal digits.                    *)
Key(beam, subband, suffix) == <<beam \div 16, beam % 16, subband, suffix>>
DataKey(beam, subband) == Key(beam, subband, DataKeySuffix)
WeightsKey(beam, subband) == Key(beam, subband, WeightsKeySuffix)

(* A ring buffer uses the number its key stands for and the one after it.  *)
Number(key) == 4096 * key[1] + 256 * key[2] + 16 * key[3] + key[4]
Uses(key) == {Number(key), Number(key) + 1}

SmrbKeys(beam) == <<DataKey(beam, 1), WeightsKey(beam, 1)>>
ReceiveKeys(beam) == <<DataKey(beam, 1), WeightsKey(beam, 1)>>
DspKeys(beam) == <<DataKey(beam, 1), WeightsKey(beam, 1)>>
StatKeys(beam) == <<DataKey(beam, 1), WeightsKey(beam, 1)>>

-----------------------------------------------------------------------------
(* Bands                                                                   *)

Band(nchan, nsamp, packets, buffers) ==
  [packet_nchan |-> nchan, packet_nsamp |-> nsamp, packets_per_buffer |-> packets, num_of_buffers |-> buffers]

LowBandConfig == Band(24, 32, 16, 64)
MidBandConfig(band) == IF band \in {"1", "2"} THEN Band(185, 4, 1024, 128) ELSE Band(185, 4, 512, 256)

Bands == {"none", "low", "1", "2", "3", "4", "5a", "5b"}
FrequencyBandConfig(band) == IF band \in {"none", "low"} THEN LowBandConfig ELSE MidBandConfig(band)

-----------------------------------------------------------------------------
(* Sizes.  A request says the number of channels and polarisations, the    *)
(* bits of a complex sample and how many samples share a packet and a      *)
(* weight.                                                                 *)

BitsPerByte == 8
WeightsBits == 16
SizeOfFloat32 == 4
Dimensions == 2

Config(r) == FrequencyBandConfig(r.band)

DataBufferResolution(r) == ((r.nchan * r.npol * r.nbits) \div BitsPerByte) * r.udp_nsamp
WeightsPerPacket(r) == r.udp_nsamp \div r.wt_nsamp
WeightsBufferResolution(r) ==
  (r.nchan \div Config(r).packet_nchan) * SizeOfFloat32
    + ((r.nchan * WeightsBits) \div BitsPerByte) * WeightsPerPacket(r)

DataBufferSize(r) == Config(r).packets_per_buffer * DataBufferResolution(r)
WeightsBufferSize(r) == Config(r).packets_per_buffer * WeightsBufferResolution(r)

(* RECV halves the bits of a sample, rounding down, and doubles them again *)
(* for the rate of which DSP is told.                                      *)
BitsPerTime(r) == r.nchan * r.npol * (r.nbits \div Dimensions) * Dimensions

-----------------------------------------------------------------------------
(* The reference: what comes in a packet of the correlator, which holds    *)
(* packet_nchan channels: the samples, one scale, a weight for each        *)
(* channel.                                                                *)

PacketBits(r) == Config(r).packet_nchan * r.npol * r.nbits * r.udp_nsamp
PacketWeights(r) ==
  SizeOfFloat32 + Config(r).packet_nchan * (WeightsBits \div BitsPerByte) * WeightsPerPacket(r)

Requests(nchans, npols, nbits, nsamps) ==
  [band : Bands, nchan : nchans, npol : npols, nbits : nbits, udp_nsamp : nsamps, wt_nsamp : nsamps \ {0}]

(* No two ring buffers use the same number, whatever their beams.          *)
KeysApart(b1, s1, x1, b2, s2, x2) ==
  Uses(Key(b1, s1, x1)) \cap Uses(Key(b2, s2, x2)) # {} => <<b1, s1, x1>> = <<b2, s2, x2>>

(* The readers and the writer look for the ring buffers that SMRB makes.   *)
KeysAgree(beam) ==
  {SmrbKeys(beam), ReceiveKeys(beam), DspKeys(beam), StatKeys(beam)} = {SmrbKeys(beam)}

(* When the channels fill p packets, a data buffer and a weights buffer    *)
(* both hold packets_per_buffer times p packets, to the byte.              *)
HoldsPackets(r, p) ==
  r.nchan = p * Config(r).packet_nchan /\ r.nbits % BitsPerByte = 0 =>
    /\ BitsPerByte * DataBufferSize(r) = Config(r).packets_per_buffer * p * PacketBits(r)
    /\ WeightsBufferSize(r) = Config(r).packets_per_buffer * p * PacketWeights(r)

(* The data that RECV has DSP expect while a ring buffer is filled is what *)
(* SMRB has made room for.                                                 *)
RateFillsBuffer(r) ==
  r.nbits % BitsPerByte = 0 => BitsPerTime(r) * r.udp_nsamp = BitsPerByte * DataBufferResolution(r)
=============================================================================
