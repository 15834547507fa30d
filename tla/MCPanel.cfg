SPECIFICATION Spec
CONSTANT SliderValues <- MCSliderValues
INVARIANTS TypeOK BufferShowsPanel LightsExclusive
PROPERTIES NoSpuriousWarning StoreSpec
